---- MODULE Spec2Model ----
(***************************************************************************)
(* Model of the extraction engine (src/src/engine.ts), its hazard          *)
(* subsystem (src/src/hazard.ts), the numeric utilities                    *)
(* (src/src/detection.ts, util part), the stance/config constants          *)
(* (src/unnamed/part_003, constants part) and the auto-queue planner       *)
(* (src/src/autoQueue.ts).                                                 *)
(*                                                                         *)
(* Numbers.  Every TypeScript `number` the engine accumulates (timeSec,    *)
(* currentNodeProgressSec, currentNodeTotalSec, site.hazard) is an IEEE    *)
(* binary64 value.  They are modelled as exact fixed-point integers in     *)
(* units of 2^-56, written as little-endian sequences of NLimbs limbs of   *)
(* LimbBits bits, and every arithmetic result is rounded to 53 significant *)
(* bits, ties to even, as binary64 does.  In the value range of the model  *)
(* (0, or 2^-4 <= v < 2^14) every binary64 value is a multiple of 2^-56,   *)
(* so the representation is exact.                                         *)
(***************************************************************************)
EXTENDS Integers, Sequences, FiniteSets, TLC

\* ------------------------------------------------------------------------
\* binary64 arithmetic on fixed-point limbs
\* ------------------------------------------------------------------------
LimbBits == 14
Base == 2 ^ LimbBits
NLimbs == 5
FracLimbs == NLimbs - 1
SigBits == 53

Pow2(n) == 2 ^ n

Min(a, b) == IF a <= b THEN a ELSE b
Max(a, b) == IF a >= b THEN a ELSE b

\* carry propagation: limbs may hold values >= Base on entry
RECURSIVE Carry(_, _, _)
Carry(s, i, c) ==
  IF i > Len(s) THEN <<>>
  ELSE LET v == s[i] + c
       IN  <<v % Base>> \o Carry(s, i + 1, v \div Base)

Normalize(s) == Carry(s, 1, 0)

Zeros(n) == [i \in 1..n |-> 0]

\* index of the highest non-zero limb, 0 for the number zero
RECURSIVE TopLimb(_, _)
TopLimb(s, i) == IF i = 0 THEN 0 ELSE IF s[i] # 0 THEN i ELSE TopLimb(s, i - 1)

RECURSIVE BitLenSmall(_)
BitLenSmall(v) == IF v = 0 THEN 0 ELSE 1 + BitLenSmall(v \div 2)

BitLen(s) ==
  LET t == TopLimb(s, Len(s))
  IN  IF t = 0 THEN 0 ELSE (t - 1) * LimbBits + BitLenSmall(s[t])

\* bit p (0-based) of a limb sequence
BitAt(s, p) == (s[(p \div LimbBits) + 1] \div Pow2(p % LimbBits)) % 2

\* TRUE iff some bit below position p is set
AnyBelow(s, p) ==
  \E i \in 1..Len(s) :
     IF i - 1 < p \div LimbBits THEN s[i] # 0
     ELSE IF i - 1 = p \div LimbBits THEN s[i] % Pow2(p % LimbBits) # 0
     ELSE FALSE

\* s with the bits below position p cleared
ClearBelow(s, p) ==
  [i \in 1..Len(s) |->
     IF i - 1 < p \div LimbBits THEN 0
     ELSE IF i - 1 = p \div LimbBits THEN s[i] - (s[i] % Pow2(p % LimbBits))
     ELSE s[i]]

AddBit(s, p) ==
  Normalize([i \in 1..Len(s) |->
     IF i - 1 = p \div LimbBits THEN s[i] + Pow2(p % LimbBits) ELSE s[i]])

\* round an exact value to SigBits significant bits, ties to even; sticky
\* says that the exact value has further non-zero bits below the sequence
Round53(s, sticky) ==
  LET L == BitLen(s)
      j == L - SigBits
  IN  IF j <= 0 THEN s
      ELSE LET g    == BitAt(s, j - 1)
               rest == AnyBelow(s, j - 1) \/ sticky
               lsb  == BitAt(s, j)
               t    == ClearBelow(s, j)
           IN  IF g = 1 /\ (rest \/ lsb = 1) THEN AddBit(t, j) ELSE t

FromInt(k) == Normalize(Zeros(FracLimbs) \o <<k>>)

QZero == Zeros(NLimbs)

\* comparison, most significant limb first
RECURSIVE QCmpFrom(_, _, _)
QCmpFrom(a, b, i) ==
  IF i = 0 THEN 0
  ELSE IF a[i] < b[i] THEN 0 - 1
  ELSE IF a[i] > b[i] THEN 1
  ELSE QCmpFrom(a, b, i - 1)

QLeq(a, b) == QCmpFrom(a, b, NLimbs) <= 0
QLt(a, b) == QCmpFrom(a, b, NLimbs) < 0
QMax(a, b) == IF QLeq(a, b) THEN b ELSE a
QMin(a, b) == IF QLeq(a, b) THEN a ELSE b

\* binary64 addition of two non-negative values
FlAdd(a, b) == Round53(Normalize([i \in 1..NLimbs |-> a[i] + b[i]]), FALSE)

\* exact product of two values, in units of 2^-112 (2 * NLimbs limbs)
MulExact(a, b) ==
  LET col(k) == LET lo == Max(1, k + 1 - NLimbs)
                    hi == Min(NLimbs, k)
                    RECURSIVE sum(_)
                    sum(i) == IF i > hi THEN 0 ELSE a[i] * b[k + 1 - i] + sum(i + 1)
                IN  sum(lo)
  IN  Normalize([k \in 1..(2 * NLimbs) |-> IF k = 2 * NLimbs THEN 0 ELSE col(k)])

\* binary64 multiplication of two non-negative values
FlMul(a, b) ==
  LET r == Round53(MulExact(a, b), FALSE)
  IN  [i \in 1..NLimbs |-> r[i + FracLimbs]]

\* long division of a limb sequence by a small positive integer:
\* <<quotient, remainder>>
RECURSIVE DivSmallFrom(_, _, _, _)
DivSmallFrom(s, d, i, rem) ==
  IF i = 0 THEN <<<<>>, rem>>
  ELSE LET v    == rem * Base + s[i]
           rest == DivSmallFrom(s, d, i - 1, v % d)
       IN  <<rest[1] \o <<v \div d>>, rest[2]>>

\* binary64 quotient of two small positive integers n / d
FlDivInt(n, d) ==
  LET num == Zeros(2 * FracLimbs) \o <<n>>
      q   == DivSmallFrom(num, d, Len(num), 0)
      r   == Round53(q[1], q[2] # 0)
  IN  [i \in 1..NLimbs |-> r[i + FracLimbs]]


\* ------------------------------------------------------------------------
\* constants (constants.ts) and utilities (util.ts)
\* ------------------------------------------------------------------------
Stances == {"Quick", "Normal", "Careful"}

STANCE_MODIFIERS ==
  [ Quick   |-> [timeMultiplier |-> FlDivInt(65, 100), hazardMultiplier |-> FlDivInt(135, 100),
                 conditionDelta |-> 0 - 10],
    Normal  |-> [timeMultiplier |-> FromInt(1), hazardMultiplier |-> FromInt(1),
                 conditionDelta |-> 0],
    Careful |-> [timeMultiplier |-> FlDivInt(125, 100), hazardMultiplier |-> FlDivInt(75, 100),
                 conditionDelta |-> 10] ]

\* chances and the stabilization multiplier are kept as percentages
DEFAULT_SIM_CONFIG ==
  [ tickRateHz |-> 10,
    hazardClamp |-> [min |-> 0, max |-> 100],
    hazardThresholds |-> <<30, 60, 90>>,
    stallChanceAtThreshold |-> 15,
    fragileDamageChanceAtThreshold |-> 25,
    volatileExplodeChanceAtThreshold |-> 20,
    volatileRadiusCount |-> 2,
    stabilizeTimeSec |-> 6,
    stabilizeEffectMultiplier |-> 50 ]

\* { ...DEFAULT_SIM_CONFIG, ...init.config }
MergeConfig(over) ==
  [k \in DOMAIN DEFAULT_SIM_CONFIG |-> IF k \in DOMAIN over THEN over[k] ELSE DEFAULT_SIM_CONFIG[k]]

\* clamp that forgets the upper limit
clamp_noUpper(value, lo, hi) == Max(lo, value)

\* clamp on integers (node condition) and on binary64 values
clamp(value, lo, hi) == Max(lo, Min(hi, value))
QClamp(value, lo, hi) == QMax(lo, QMin(hi, value))

\* the outcomes of `Math.random() < chance`, chance in units of 1/scale
Roll(chance, scale) ==
  IF chance <= 0 THEN {FALSE} ELSE IF chance >= scale THEN {TRUE} ELSE BOOLEAN

Range(s) == {s[i] : i \in 1..Len(s)}

\* every result pickRandom(array, count) can return: the injective
\* sequences of min(count, length) elements of array
pickRandom(array, count) ==
  LET k == Max(0, Min(count, Len(array)))
  IN  { [i \in 1..k |-> array[f[i]]] :
          f \in { g \in [1..k -> 1..Len(array)] : \A i, j \in 1..k : i # j => g[i] # g[j] } }

\* array.filter(n => n.id !== id), on sequences of node ids
FilterOut(s, id) == SelectSeq(s, LAMBDA x : x # id)


\* ------------------------------------------------------------------------
\* state
\* ------------------------------------------------------------------------
VARIABLES
  lootNodes,               \* the LootNode objects, by id (shared by site, queue, engine)
  site,                    \* Site: nodes (ids, in order), hazard, stabilizedVolatiles, exhausted
  cargo,                   \* CargoState
  tools,                   \* ToolsState
  options,                 \* OperationOptions
  config,                  \* SimulationConfig after the merge with the defaults
  queue,                   \* LootingEngine.queue (node ids)
  isRunning,
  timeSec,
  currentNodeProgressSec,
  currentNodeTotalSec,
  currentNode,             \* node id, NoNode for null
  hazardState,             \* HazardState.triggeredThresholds
  events,                  \* the events the last operation passed to emit, in order
  hist,                    \* how often each kind of event has been emitted so far
  steps                    \* number of runStep calls made on a running engine

vars == <<lootNodes, site, cargo, tools, options, config, queue, isRunning, timeSec,
          currentNodeProgressSec, currentNodeTotalSec, currentNode, hazardState,
          events, hist, steps>>

NoNode == 0

\* ExtractionEvent; fields that a variant does not carry hold a default
NoProgress == [num |-> QZero, den |-> FromInt(1)]

Ev(type, t, node, threshold, progress, message) ==
  [type |-> type, timeSec |-> t, node |-> node, threshold |-> threshold,
   progress |-> progress, message |-> message]

NodeEv(type, t, node, message) == Ev(type, t, node, 0, NoProgress, message)

\* ------------------------------------------------------------------------
\* hazard.ts
\* ------------------------------------------------------------------------
\* addHazard without the clamp
addHazard_noClamp(hazard, amount, cfg) == FlAdd(hazard, amount)

\* addHazard: the new value of site.hazard
addHazard(hazard, amount, cfg) ==
  QClamp(FlAdd(hazard, amount), FromInt(cfg.hazardClamp.min), FromInt(cfg.hazardClamp.max))

IsVolatile(n) == "Volatile" \in n.tags \/ "Ammo" \in n.tags \/ "Fuel" \in n.tags

\* A world is what one threshold resolution reads and writes:
\*   nodes (site.nodes), heap (the LootNode objects), evs (events emitted)

\* a destruction callback that reports the node but leaves it in site.nodes
onNodeDestroyed_keep(w, id, t, message) ==
  [w EXCEPT !.evs = Append(w.evs, NodeEv("NodeDestroyed", t, id, message))]

\* engine.ts tickHazard, onNodeDestroyed callback
onNodeDestroyed(w, id, t, message) ==
  [w EXCEPT !.nodes = FilterOut(w.nodes, id),
            !.evs = Append(w.evs, NodeEv("NodeDestroyed", t, id, message))]

\* engine.ts tickHazard, onNodeDamaged callback
onNodeDamaged(w, id, t, message) ==
  [w EXCEPT !.evs = Append(w.evs, NodeEv("NodeDamaged", t, id, message))]

\* one blast neighbour: 50% chance of 25 damage, destroyed at condition 0
BlastNeighbor(w, id, t) ==
  {w} \cup
  { LET c  == Max(0, w.heap[id].condition - 25)
        w1 == onNodeDamaged([w EXCEPT !.heap[id].condition = c], id, t, "damaged by blast")
    IN  IF c <= 0 THEN onNodeDestroyed(w1, id, t, "destroyed by blast damage") ELSE w1 }

RECURSIVE BlastNeighbors(_, _, _, _)
BlastNeighbors(W, neighbors, i, t) ==
  IF i > Len(neighbors) THEN W
  ELSE BlastNeighbors(UNION { BlastNeighbor(w, neighbors[i], t) : w \in W }, neighbors, i + 1, t)

\* one volatile candidate: it may detonate, and then damages picked neighbours
Explode(w, id, chance, scale, radius, t) ==
  UNION { IF ~boom THEN {w}
          ELSE LET w1 == onNodeDestroyed(w, id, t, "detonated")
               IN  UNION { BlastNeighbors({w1}, nb, 1, t) :
                             nb \in pickRandom(FilterOut(w1.nodes, id), radius) }
        : boom \in Roll(chance, scale) }

RECURSIVE VolatilePass(_, _, _, _, _, _, _)
VolatilePass(W, candidates, i, chance, scale, radius, t) ==
  IF i > Len(candidates) THEN W
  ELSE VolatilePass(UNION { Explode(w, candidates[i], chance, scale, radius, t) : w \in W },
                    candidates, i + 1, chance, scale, radius, t)

Fragile(w, id, chance, t) ==
  IF "Fragile" \notin w.heap[id].tags THEN {w}
  ELSE { IF ~hit THEN w
         ELSE onNodeDamaged([w EXCEPT !.heap[id].condition = Max(0, w.heap[id].condition - 15)],
                            id, t, "condition dropped")
       : hit \in Roll(chance, 100) }

RECURSIVE FragilePass(_, _, _, _, _)
FragilePass(W, ids, i, chance, t) ==
  IF i > Len(ids) THEN W
  ELSE FragilePass(UNION { Fragile(w, ids[i], chance, t) : w \in W }, ids, i + 1, chance, t)

Stall(w, id, chance, t) ==
  { IF ~hit THEN w
    ELSE onNodeDamaged([w EXCEPT !.heap[id].extractTimeSec = w.heap[id].extractTimeSec + 3],
                       id, t, "stall")
  : hit \in Roll(chance, 100) }

RECURSIVE StallPass(_, _, _, _, _)
StallPass(W, ids, i, chance, t) ==
  IF i > Len(ids) THEN W
  ELSE StallPass(UNION { Stall(w, ids[i], chance, t) : w \in W }, ids, i + 1, chance, t)

\* rollThresholdEffects: every world one effect pass can leave behind
rollThresholdEffects(w, stabilized, cfg, t) ==
  LET volatileCandidates == SelectSeq(w.nodes, LAMBDA id : IsVolatile(w.heap[id]))
      chance == cfg.volatileExplodeChanceAtThreshold *
                  (IF stabilized THEN cfg.stabilizeEffectMultiplier ELSE 100)
      W1 == VolatilePass({w}, volatileCandidates, 1, chance, 100 * 100,
                         cfg.volatileRadiusCount, t)
      W2 == UNION { FragilePass({w1}, w1.nodes, 1, cfg.fragileDamageChanceAtThreshold, t)
                    : w1 \in W1 }
  IN  UNION { StallPass({w2}, w2.nodes, 1, cfg.stallChanceAtThreshold, t) : w2 \in W2 }

\* checkThresholdEvents that never records a threshold as triggered
RECURSIVE checkThresholdEvents_noRecord(_, _, _, _, _, _)
checkThresholdEvents_noRecord(W, hazard, stabilized, cfg, i, t) ==
  IF i > Len(cfg.hazardThresholds) THEN W
  ELSE LET th == cfg.hazardThresholds[i]
           fire(w) ==
             IF QLeq(FromInt(th), hazard) /\ th \notin w.triggered
             THEN rollThresholdEffects(
                    [w EXCEPT !.evs = Append(w.evs, Ev("HazardThreshold", t, NoNode, th,
                                                       NoProgress, ""))],
                    stabilized, cfg, t)
             ELSE {w}
       IN  checkThresholdEvents_noRecord(UNION { fire(w) : w \in W }, hazard, stabilized, cfg,
                                         i + 1, t)

\* checkThresholdEvents: worlds carry the set of triggered thresholds too
RECURSIVE checkThresholdEvents(_, _, _, _, _, _)
checkThresholdEvents(W, hazard, stabilized, cfg, i, t) ==
  IF i > Len(cfg.hazardThresholds) THEN W
  ELSE LET th == cfg.hazardThresholds[i]
           fire(w) ==
             IF QLeq(FromInt(th), hazard) /\ th \notin w.triggered
             THEN rollThresholdEffects(
                    [w EXCEPT !.triggered = w.triggered \cup {th},
                              !.evs = Append(w.evs, Ev("HazardThreshold", t, NoNode, th,
                                                       NoProgress, ""))],
                    stabilized, cfg, t)
             ELSE {w}
       IN  checkThresholdEvents(UNION { fire(w) : w \in W }, hazard, stabilized, cfg, i + 1, t)


\* ------------------------------------------------------------------------
\* engine.ts
\* ------------------------------------------------------------------------
\* a tick of twice the length
DtSec_double(cfg) == FlDivInt(2, cfg.tickRateHz)

\* const dtSec = 1 / this.config.tickRateHz
DtSec(cfg) == FlDivInt(1, cfg.tickRateHz)

\* canExtract without the tool checks
canExtract_noTools(node, cg, tl, opt) ==
  LET fits == /\ cg.usedMassKg + node.massKg <= cg.maxMassKg
              /\ cg.usedVolumeM3 + node.volumeM3 <= cg.maxVolumeM3
  IN  IF ~fits /\ ~opt.waitForSpace
      THEN [ok |-> FALSE, reason |-> "Insufficient cargo space"]
      ELSE [ok |-> TRUE, reason |-> ""]

\* canExtract without the cargo check
canExtract_noSpace(node, cg, tl, opt) ==
  IF node.requiresTool = "Crane" /\ ~tl.hasCrane THEN [ok |-> FALSE, reason |-> "Requires Crane"]
  ELSE IF node.requiresTool = "Cutter" /\ ~tl.hasCutter
       THEN [ok |-> FALSE, reason |-> "Requires Cutter"]
  ELSE [ok |-> TRUE, reason |-> ""]

canExtract(node, cg, tl, opt) ==
  IF node.requiresTool = "Crane" /\ ~tl.hasCrane THEN [ok |-> FALSE, reason |-> "Requires Crane"]
  ELSE IF node.requiresTool = "Cutter" /\ ~tl.hasCutter
       THEN [ok |-> FALSE, reason |-> "Requires Cutter"]
  ELSE LET fits == /\ cg.usedMassKg + node.massKg <= cg.maxMassKg
                   /\ cg.usedVolumeM3 + node.volumeM3 <= cg.maxVolumeM3
       IN  IF ~fits /\ ~opt.waitForSpace
           THEN [ok |-> FALSE, reason |-> "Insufficient cargo space"]
           ELSE [ok |-> TRUE, reason |-> ""]

\* consumeCargo that leaves the used volume alone
consumeCargo_massOnly(cg, node) ==
  [cg EXCEPT !.usedMassKg = cg.usedMassKg + node.massKg]

consumeCargo(cg, node) ==
  [cg EXCEPT !.usedMassKg = cg.usedMassKg + node.massKg,
             !.usedVolumeM3 = cg.usedVolumeM3 + node.volumeM3]

\* removeNodeFromSite that leaves the node in the site
removeNodeFromSite_keepsNode(st, id) == st

\* removeNodeFromSite: the new site.nodes and site.exhausted
removeNodeFromSite(st, id) ==
  LET ns == FilterOut(st.nodes, id)
  IN  [st EXCEPT !.nodes = ns, !.exhausted = IF Len(ns) = 0 THEN TRUE ELSE st.exhausted]

\* the while loop of startNextNode over the queue q; evs collects the events
RECURSIVE SelectLoop(_, _, _, _, _, _, _, _)
SelectLoop(q, evs, siteNodes, heap, cg, tl, opt, t) ==
  IF Len(q) = 0
  THEN [queue |-> q, currentNode |-> NoNode, totalSec |-> QZero, isRunning |-> FALSE,
        evs |-> Append(evs, Ev("Completed", t, NoNode, 0, NoProgress, ""))]
  ELSE LET id  == Head(q)
           can == canExtract(heap[id], cg, tl, opt)
       IN  IF id \notin Range(siteNodes)
           THEN SelectLoop(Tail(q), evs, siteNodes, heap, cg, tl, opt, t)
           ELSE IF ~can.ok
           THEN IF ~opt.waitForSpace \/ can.reason # "Insufficient cargo space"
                THEN SelectLoop(Tail(q), Append(evs, NodeEv("ItemSkipped", t, id, can.reason)),
                                siteNodes, heap, cg, tl, opt, t)
                ELSE [queue |-> q, currentNode |-> NoNode, totalSec |-> QZero,
                      isRunning |-> TRUE, evs |-> evs]
           ELSE [queue |-> q, currentNode |-> id,
                 totalSec |-> QMax(FlDivInt(1, 2),
                                   FlMul(FromInt(heap[id].extractTimeSec),
                                         STANCE_MODIFIERS[opt.stance].timeMultiplier)),
                 isRunning |-> TRUE,
                 evs |-> Append(evs, NodeEv("ItemStarted", t, id, ""))]

\* startNextNode reporting a head that is no longer in the site
startNextNode_reportsMissing(q, siteNodes, heap, cg, tl, opt, t) ==
  SelectLoop(q,
             IF Len(q) > 0 /\ Head(q) \notin Range(siteNodes)
             THEN <<NodeEv("ItemSkipped", t, Head(q), "Missing")>> ELSE <<>>,
             siteNodes, heap, cg, tl, opt, t)

\* a selection that starts nothing and leaves the queue and the running
\* flag as they were
startNextNode_keepsQueue(q, siteNodes, heap, cg, tl, opt, t) ==
  LET r == SelectLoop(q, <<>>, siteNodes, heap, cg, tl, opt, t)
  IN  IF r.currentNode = NoNode /\ Len(q) > 0
      THEN [r EXCEPT !.queue = q, !.isRunning = TRUE]
      ELSE r

startNextNode(q, siteNodes, heap, cg, tl, opt, t) ==
  SelectLoop(q, <<>>, siteNodes, heap, cg, tl, opt, t)

\* tickHazard: every world the hazard tick can leave behind; a world holds
\* site.nodes, site.hazard, site.stabilizedVolatiles, the LootNode objects
\* (heap), the triggered thresholds and the events emitted so far
\* a hazard tick that runs an effect pass whether or not a threshold fired
tickHazard_rollsAlways(w, currentItemHazardPerSec, dtSec, opt, cfg, t) ==
  LET stance       == STANCE_MODIFIERS[opt.stance]
      hazardPerSec == FlMul(FromInt(currentItemHazardPerSec), stance.hazardMultiplier)
      next         == addHazard(w.hazard, FlMul(hazardPerSec, dtSec), cfg)
  IN  UNION { rollThresholdEffects(x, w.stabilized, cfg, t) :
              x \in checkThresholdEvents({[w EXCEPT !.hazard = next]}, next, w.stabilized,
                                         cfg, 1, t) }

tickHazard(w, currentItemHazardPerSec, dtSec, opt, cfg, t) ==
  LET stance       == STANCE_MODIFIERS[opt.stance]
      hazardPerSec == FlMul(FromInt(currentItemHazardPerSec), stance.hazardMultiplier)
      next         == addHazard(w.hazard, FlMul(hazardPerSec, dtSec), cfg)
  IN  checkThresholdEvents({[w EXCEPT !.hazard = next]}, next, w.stabilized, cfg, 1, t)

\* how often each kind of event has been emitted, saturating at CountCap
CountCap == 3

\* ItemProgress events are counted up to ProgressCap
ProgressCap == 11

Bump(c) == Min(c + 1, CountCap)

RECURSIVE Record(_, _, _)
Record(h, evs, i) ==
  IF i > Len(evs) THEN h
  ELSE LET e == evs[i]
           h1 == IF e.type \in {"ItemStarted", "ItemTransferred", "ItemSkipped", "NodeDestroyed"}
                 THEN [h EXCEPT ![e.type][e.node] = Bump(@)]
                 ELSE IF e.type = "HazardThreshold"
                 THEN [h EXCEPT !.HazardThreshold[e.threshold] = Bump(@)]
                 ELSE IF e.type \in {"Completed", "StabilizedVolatiles"}
                 THEN [h EXCEPT ![e.type] = Bump(@)]
                 ELSE IF e.type = "ItemProgress"
                 THEN [h EXCEPT !.ItemProgress = Min(@ + 1, ProgressCap)]
                 ELSE h
       IN  Record(h1, evs, i + 1)


\* ------------------------------------------------------------------------
\* autoQueue.ts, util.ts
\* ------------------------------------------------------------------------
\* util.ts weightedValuePerKg: a binary64 score
weightedValuePerKg(value, massKg, isPreferred) ==
  LET base == IF massKg <= 0 THEN FromInt(value) ELSE FlDivInt(value, massKg)
  IN  IF isPreferred THEN FlMul(base, FromInt(2)) ELSE base

\* the preferred set without the cap of three
preferredSet_noCap(preferredTags) == Range(preferredTags)

\* new Set(priorities.preferredTags.slice(0, 3))
preferredSet(preferredTags) ==
  { preferredTags[i] : i \in 1..Min(3, Len(preferredTags)) }

\* an insertion that puts x ahead of the entries of equal score
RECURSIVE InsertRanked_unstable(_, _)
InsertRanked_unstable(s, x) ==
  IF Len(s) = 0 THEN <<x>>
  ELSE IF QLeq(Head(s).score, x.score) THEN <<x>> \o s
  ELSE <<Head(s)>> \o InsertRanked_unstable(Tail(s), x)

\* Array.prototype.sort((a, b) => b.score - a.score) is a stable sort by
\* descending score: x goes behind every entry whose score is not lower
RECURSIVE InsertRanked(_, _)
InsertRanked(s, x) ==
  IF Len(s) = 0 THEN <<x>>
  ELSE IF QLt(Head(s).score, x.score) THEN <<x>> \o s
  ELSE <<Head(s)>> \o InsertRanked(Tail(s), x)

RECURSIVE SortRanked(_, _)
SortRanked(sorted, rest) ==
  IF Len(rest) = 0 THEN sorted
  ELSE SortRanked(InsertRanked(sorted, Head(rest)), Tail(rest))

\* computeAutoQueue, lines 12-20: the candidates of positive value, ranked
ranked(nodes, heap, preferredTags) ==
  LET preferred == preferredSet(preferredTags)
      positive  == SelectSeq(nodes, LAMBDA n : heap[n].value > 0)
      scored    == [i \in DOMAIN positive |->
                      [node  |-> positive[i],
                       score |-> weightedValuePerKg(heap[positive[i]].value,
                                                    heap[positive[i]].massKg,
                                                    heap[positive[i]].tags \cap preferred # {})]]
      sorted    == SortRanked(<<>>, scored)
  IN  [i \in DOMAIN sorted |-> sorted[i].node]

\* computeAutoQueue, lines 22-34: the greedy pass over the ranked nodes
RECURSIVE Accept(_, _, _, _, _, _, _)
Accept(rk, result, mass, vol, heap, cg, maxItems) ==
  IF Len(rk) = 0 \/ Len(result) >= maxItems THEN result
  ELSE LET node == heap[Head(rk)]
       IN  IF mass + node.massKg <= cg.maxMassKg /\ vol + node.volumeM3 <= cg.maxVolumeM3
           THEN Accept(Tail(rk), Append(result, Head(rk)), mass + node.massKg,
                       vol + node.volumeM3, heap, cg, maxItems)
           ELSE Accept(Tail(rk), result, mass, vol, heap, cg, maxItems)

\* computeAutoQueue without the limit on the number of picks
computeAutoQueue_noLimit(nodes, heap, cg, preferredTags, maxItems) ==
  Accept(ranked(nodes, heap, preferredTags), <<>>, cg.usedMassKg, cg.usedVolumeM3, heap, cg,
         Len(nodes) + 1)

computeAutoQueue(nodes, heap, cg, preferredTags, maxItems) ==
  Accept(ranked(nodes, heap, preferredTags), <<>>, cg.usedMassKg, cg.usedVolumeM3, heap, cg,
         maxItems)

\* ------------------------------------------------------------------------
\* bounds and inputs
\* ------------------------------------------------------------------------
MaxSeconds == 2
MaxQueue == 2
MaxEnqueue == 2

Node(tags, massKg, volumeM3, condition, value, extractTimeSec, baseHazardPerSec, requiresTool) ==
  [tags |-> tags, massKg |-> massKg, volumeM3 |-> volumeM3, condition |-> condition,
   value |-> value, extractTimeSec |-> extractTimeSec,
   baseHazardPerSec |-> baseHazardPerSec, requiresTool |-> requiresTool]

\* nodes as makeNode builds them (siteGenerator.ts), with small masses,
\* volumes and durations
AmmoCrate == Node({"Ammo", "Volatile"}, 2, 1, 60, 12, 1, 40, "None")
FuelDrum  == Node({"Fuel", "Volatile", "Heavy"}, 1, 1, 20, 8, 2, 40, "None")
Radar     == Node({"Fragile", "Rare"}, 3, 2, 10, 50, 1, 20, "Crane")
Crystal   == Node({"Rare", "Fragile"}, 1, 1, 5, 45, 1, 30, "Cutter")
OilDrum   == Node({"Oil", "Heavy"}, 2, 1, 100, 7, 1, 20, "None")
Crate     == Node({}, 10, 1, 100, 100, 1, 1, "None")
Volatile  == Node({"Volatile"}, 2, 1, 80, 10, 2, 20, "None")

Cargo(maxMassKg, maxVolumeM3, usedMassKg, usedVolumeM3) ==
  [maxMassKg |-> maxMassKg, maxVolumeM3 |-> maxVolumeM3,
   usedMassKg |-> usedMassKg, usedVolumeM3 |-> usedVolumeM3]

Tools(hasCrane, hasCutter) == [hasCrane |-> hasCrane, hasCutter |-> hasCutter]

Options(stance, waitForSpace, autoStabilizeVolatiles) ==
  [stance |-> stance, waitForSpace |-> waitForSpace,
   autoStabilizeVolatiles |-> autoStabilizeVolatiles]

\* config overrides shared by the scenarios: a slow tick and a short
\* stabilization keep the runs short
Slow == [tickRateHz |-> 2, stabilizeTimeSec |-> 1]

Certain(over) == over @@ [volatileExplodeChanceAtThreshold |-> 100,
                          fragileDamageChanceAtThreshold |-> 0,
                          stallChanceAtThreshold |-> 0, volatileRadiusCount |-> 1]

Scenario(nodes, hazard, cg, tl, opt, over) ==
  [nodes |-> nodes, hazard |-> hazard, cargo |-> cg, tools |-> tl, options |-> opt,
   config |-> MergeConfig(over)]

\* the engines the model is run on: site, cargo, tools, options, config

\* a wreck whose volatiles detonate for certain at the thresholds
ScWreck ==
  Scenario(<<AmmoCrate, Radar, FuelDrum>>, 0, Cargo(4, 3, 0, 0), Tools(TRUE, TRUE),
           Options("Normal", FALSE, FALSE), Certain(Slow @@ [hazardThresholds |-> <<30, 60>>]))

\* cargo already full, stabilization on a site that is already past two thresholds
ScFullCargo ==
  Scenario(<<AmmoCrate, OilDrum>>, 60, Cargo(4, 3, 4, 3), Tools(TRUE, TRUE),
           Options("Quick", TRUE, TRUE), Slow @@ [stallChanceAtThreshold |-> 0])

\* no tools, a fragile node, a cargo hold that is partly used
ScNoTools ==
  Scenario(<<Crystal, OilDrum>>, 25, Cargo(4, 3, 2, 1), Tools(FALSE, FALSE),
           Options("Careful", FALSE, FALSE),
           Slow @@ [hazardThresholds |-> <<30>>, volatileExplodeChanceAtThreshold |-> 0,
                    stallChanceAtThreshold |-> 0])

\* crane missing while waiting for space, hazard close to the clamp, stalls
ScNoCrane ==
  Scenario(<<Radar, OilDrum>>, 90, Cargo(4, 3, 0, 0), Tools(FALSE, TRUE),
           Options("Normal", TRUE, FALSE),
           Slow @@ [hazardThresholds |-> <<95>>, fragileDamageChanceAtThreshold |-> 0])

\* one volatile node, one threshold, certain detonation, no stabilization
ScVolatile ==
  Scenario(<<Volatile>>, 0, Cargo(4, 3, 0, 0), Tools(TRUE, TRUE),
           Options("Normal", FALSE, FALSE), Certain(Slow @@ [hazardThresholds |-> <<30>>]))

\* the single-node run at the default tick rate
ScSingleDefault ==
  Scenario(<<Crate>>, 0, Cargo(100, 10, 0, 0), Tools(TRUE, TRUE),
           Options("Normal", FALSE, FALSE), <<>>)

\* the single-node run at a tick rate whose period is a binary fraction
ScSingleSlow ==
  { Scenario(<<[Crate EXCEPT !.condition = c]>>, 0, Cargo(100, 10, 0, 0), Tools(TRUE, TRUE),
             Options(s, w, FALSE), Slow)
    : s \in Stances, w \in BOOLEAN, c \in {5, 100} }

\* a stabilization of no duration on a site whose hazard is at a threshold
ScInstantStabilize ==
  Scenario(<<Crate>>, 30, Cargo(100, 10, 0, 0), Tools(TRUE, TRUE),
           Options("Normal", FALSE, TRUE),
           [tickRateHz |-> 2, stabilizeTimeSec |-> 0, hazardThresholds |-> <<30>>,
            stallChanceAtThreshold |-> 0])

\* a threshold list that is not in ascending order, on a site whose hazard
\* is already past both thresholds
ScUnsorted ==
  Scenario(<<Crate>>, 70, Cargo(100, 10, 0, 0), Tools(TRUE, TRUE),
           Options("Normal", FALSE, FALSE),
           Slow @@ [hazardThresholds |-> <<60, 30>>, stallChanceAtThreshold |-> 0])

Scenarios ==
  {ScWreck, ScFullCargo, ScNoTools, ScNoCrane, ScVolatile, ScSingleDefault, ScInstantStabilize,
   ScUnsorted} \cup ScSingleSlow

NodeIds == DOMAIN lootNodes

InitHist ==
  [ItemStarted |-> [n \in NodeIds |-> 0], ItemTransferred |-> [n \in NodeIds |-> 0],
   ItemSkipped |-> [n \in NodeIds |-> 0], NodeDestroyed |-> [n \in NodeIds |-> 0],
   HazardThreshold |-> [th \in Range(config.hazardThresholds) |-> 0],
   Completed |-> 0, StabilizedVolatiles |-> 0, ItemProgress |-> 0]

\* the state after `new LootingEngine({site, cargo, tools, options, config})`
Init ==
  /\ \E sc \in Scenarios :
       /\ lootNodes = sc.nodes
       /\ site = [nodes |-> [i \in 1..Len(sc.nodes) |-> i], hazard |-> FromInt(sc.hazard),
                  stabilizedVolatiles |-> FALSE, exhausted |-> Len(sc.nodes) = 0]
       /\ cargo = sc.cargo
       /\ tools = sc.tools
       /\ options = sc.options
       /\ config = sc.config
  /\ queue = <<>>
  /\ isRunning = FALSE
  /\ timeSec = QZero
  /\ currentNodeProgressSec = QZero
  /\ currentNodeTotalSec = QZero
  /\ currentNode = NoNode
  /\ hazardState = {}
  /\ events = <<>>
  /\ hist = InitHist
  /\ steps = 0

\* ------------------------------------------------------------------------
\* operations
\* ------------------------------------------------------------------------
Emit(evs) ==
  /\ events' = evs
  /\ hist' = Record(hist, evs, 1)

\* enqueue without the check that the node is still in the site
enqueue_noFilter(q, ns, siteNodes) == q \o ns

enqueue(q, ns, siteNodes) == q \o SelectSeq(ns, LAMBDA id : id \in Range(siteNodes))

Enqueue ==
  \E k \in 1..MaxEnqueue : \E ns \in [1..k -> NodeIds] :
    /\ Len(enqueue(queue, ns, site.nodes)) <= MaxQueue
    /\ queue' = enqueue(queue, ns, site.nodes)
    /\ Emit(<<>>)
    /\ UNCHANGED <<lootNodes, site, cargo, tools, options, config, isRunning, timeSec,
                   currentNodeProgressSec, currentNodeTotalSec, currentNode, hazardState, steps>>

\* Array.prototype.splice(at, 0, item)
InsertAt(s, at, item) == SubSeq(s, 1, at) \o <<item>> \o SubSeq(s, at + 1, Len(s))
RemoveAt(s, at) == SubSeq(s, 1, at) \o SubSeq(s, at + 2, Len(s))

\* reorderQueue that swaps the two entries instead of moving one
reorderQueue_swap(q, index, newIndex) ==
  IF index < 0 \/ index >= Len(q) THEN q
  ELSE LET at == Max(0, Min(newIndex, Len(q) - 1))
       IN  [q EXCEPT ![index + 1] = q[at + 1], ![at + 1] = q[index + 1]]

reorderQueue(q, index, newIndex) ==
  IF index < 0 \/ index >= Len(q) THEN q
  ELSE LET rest == RemoveAt(q, index)
       IN  InsertAt(rest, Max(0, Min(newIndex, Len(rest))), q[index + 1])

ReorderQueue ==
  \E index \in (0 - 1)..Len(queue), newIndex \in (0 - 1)..(Len(queue) + 1) :
    /\ queue' = reorderQueue(queue, index, newIndex)
    /\ Emit(<<>>)
    /\ UNCHANGED <<lootNodes, site, cargo, tools, options, config, isRunning, timeSec,
                   currentNodeProgressSec, currentNodeTotalSec, currentNode, hazardState, steps>>

\* clearQueue that also drops the active node
ClearQueue_dropsNode ==
  /\ queue' = <<>>
  /\ currentNode' = NoNode
  /\ Emit(<<>>)
  /\ UNCHANGED <<lootNodes, site, cargo, tools, options, config, isRunning, timeSec,
                 currentNodeProgressSec, currentNodeTotalSec, hazardState, steps>>

ClearQueue ==
  /\ queue' = <<>>
  /\ Emit(<<>>)
  /\ UNCHANGED <<lootNodes, site, cargo, tools, options, config, isRunning, timeSec,
                 currentNodeProgressSec, currentNodeTotalSec, currentNode, hazardState, steps>>

\* a stabilization whose ticks carry an item hazard rate
RECURSIVE StabilizeTicks_withHazard(_, _, _, _, _, _)
StabilizeTicks_withHazard(W, n, dtSec, opt, cfg, t) ==
  IF n = 0 THEN W
  ELSE StabilizeTicks_withHazard(UNION { tickHazard(w, 4, dtSec, opt, cfg, t) : w \in W },
                                 n - 1, dtSec, opt, cfg, t)

\* the tick loop of maybeStabilize
RECURSIVE StabilizeTicks(_, _, _, _, _, _)
StabilizeTicks(W, n, dtSec, opt, cfg, t) ==
  IF n = 0 THEN W
  ELSE StabilizeTicks(UNION { tickHazard(w, 0, dtSec, opt, cfg, t) : w \in W },
                      n - 1, dtSec, opt, cfg, t)

\* Math.ceil(dur * tickRateHz), without the `|| 1`
StabilizeTickCount_noFloor(cfg) == cfg.stabilizeTimeSec * cfg.tickRateHz

\* Math.ceil((dur * tickRateHz) || 1) for integer dur
StabilizeTickCount(cfg) ==
  IF cfg.stabilizeTimeSec * cfg.tickRateHz = 0 THEN 1 ELSE cfg.stabilizeTimeSec * cfg.tickRateHz

\* maybeStabilize that does not look at site.stabilizedVolatiles
maybeStabilize_always(w, opt, cfg, t) ==
  IF opt.autoStabilizeVolatiles
  THEN StabilizeTicks(
         {[w EXCEPT !.stabilized = TRUE,
                    !.evs = Append(w.evs, Ev("StabilizedVolatiles", t, NoNode, 0,
                                             NoProgress, ""))]},
         StabilizeTickCount(cfg), DtSec(cfg), opt, cfg, t)
  ELSE {w}

\* maybeStabilize: the worlds it can leave behind
maybeStabilize(w, opt, cfg, t) ==
  IF ~w.stabilized /\ opt.autoStabilizeVolatiles
  THEN StabilizeTicks(
         {[w EXCEPT !.stabilized = TRUE,
                    !.evs = Append(w.evs, Ev("StabilizedVolatiles", t, NoNode, 0,
                                             NoProgress, ""))]},
         StabilizeTickCount(cfg), DtSec(cfg), opt, cfg, t)
  ELSE {w}

World(evs) ==
  [nodes |-> site.nodes, hazard |-> site.hazard, stabilized |-> site.stabilizedVolatiles,
   heap |-> lootNodes, triggered |-> hazardState, evs |-> evs]

\* start that begins the extraction of the active node again
Start_restarts ==
  IF isRunning
  THEN /\ Emit(<<>>)
       /\ UNCHANGED <<lootNodes, site, cargo, tools, options, config, queue, isRunning, timeSec,
                      currentNodeProgressSec, currentNodeTotalSec, currentNode, hazardState, steps>>
  ELSE \E w \in maybeStabilize(World(<<>>), options, config, timeSec) :
         /\ isRunning' = TRUE
         /\ site' = [site EXCEPT !.nodes = w.nodes, !.hazard = w.hazard,
                                 !.stabilizedVolatiles = w.stabilized]
         /\ lootNodes' = w.heap
         /\ hazardState' = w.triggered
         /\ currentNodeProgressSec' = QZero
         /\ Emit(w.evs)
         /\ UNCHANGED <<cargo, tools, options, config, queue, timeSec,
                        currentNodeTotalSec, currentNode, steps>>

Start ==
  IF isRunning
  THEN /\ Emit(<<>>)
       /\ UNCHANGED <<lootNodes, site, cargo, tools, options, config, queue, isRunning, timeSec,
                      currentNodeProgressSec, currentNodeTotalSec, currentNode, hazardState, steps>>
  ELSE \E w \in maybeStabilize(World(<<>>), options, config, timeSec) :
         /\ isRunning' = TRUE
         /\ site' = [site EXCEPT !.nodes = w.nodes, !.hazard = w.hazard,
                                 !.stabilizedVolatiles = w.stabilized]
         /\ lootNodes' = w.heap
         /\ hazardState' = w.triggered
         /\ Emit(w.evs)
         /\ UNCHANGED <<cargo, tools, options, config, queue, timeSec, currentNodeProgressSec,
                        currentNodeTotalSec, currentNode, steps>>

\* abort without the running guard
Abort_noGuard ==
  /\ isRunning' = FALSE
  /\ Emit(<<Ev("Aborted", timeSec, NoNode, 0, NoProgress, "")>>)
  /\ UNCHANGED <<lootNodes, site, cargo, tools, options, config, queue, timeSec,
                 currentNodeProgressSec, currentNodeTotalSec, currentNode, hazardState, steps>>

\* abort that also drops the active node and its progress
Abort_dropsNode ==
  IF ~isRunning
  THEN /\ Emit(<<>>)
       /\ UNCHANGED <<lootNodes, site, cargo, tools, options, config, queue, isRunning, timeSec,
                      currentNodeProgressSec, currentNodeTotalSec, currentNode, hazardState, steps>>
  ELSE /\ isRunning' = FALSE
       /\ currentNode' = NoNode
       /\ currentNodeProgressSec' = QZero
       /\ Emit(<<Ev("Aborted", timeSec, NoNode, 0, NoProgress, "")>>)
       /\ UNCHANGED <<lootNodes, site, cargo, tools, options, config, queue, timeSec,
                      currentNodeTotalSec, hazardState, steps>>

Abort ==
  IF ~isRunning
  THEN /\ Emit(<<>>)
       /\ UNCHANGED <<lootNodes, site, cargo, tools, options, config, queue, isRunning, timeSec,
                      currentNodeProgressSec, currentNodeTotalSec, currentNode, hazardState, steps>>
  ELSE /\ isRunning' = FALSE
       /\ Emit(<<Ev("Aborted", timeSec, NoNode, 0, NoProgress, "")>>)
       /\ UNCHANGED <<lootNodes, site, cargo, tools, options, config, queue, timeSec,
                      currentNodeProgressSec, currentNodeTotalSec, currentNode, hazardState, steps>>

\* the progress fraction without the clamp
ProgressFraction_noClamp(progressSec, totalSec) == [num |-> progressSec, den |-> totalSec]

\* clamp(currentNodeProgressSec / currentNodeTotalSec, 0, 1) as a fraction
ProgressFraction(progressSec, totalSec) ==
  [num |-> QMin(progressSec, totalSec), den |-> totalSec]

\* runStep once a node is active: hazard tick, progress, transfer or skip
StepActive(w, q, node, progressSec, totalSec, dtSec, t) ==
  \E x \in tickHazard(w, lootNodes[node].baseHazardPerSec, dtSec, options, config, t) :
    LET p1       == FlAdd(progressSec, dtSec)
        done     == QLeq(totalSec, p1)
        progress == ProgressFraction(p1, totalSec)
        evs1     == Append(x.evs, Ev("ItemProgress", t, node, 0, progress, ""))
        can      == canExtract(x.heap[node], cargo, tools, options)
        delta    == STANCE_MODIFIERS[options.stance].conditionDelta
        heap1    == [x.heap EXCEPT ![node].condition = clamp(@ + delta, 0, 100)]
        st       == [site EXCEPT !.nodes = x.nodes, !.hazard = x.hazard]
    IN  /\ currentNodeProgressSec' = p1
        /\ currentNodeTotalSec' = totalSec
        /\ hazardState' = x.triggered
        /\ isRunning' = TRUE
        /\ IF ~done
           THEN /\ lootNodes' = x.heap
                /\ site' = st
                /\ cargo' = cargo
                /\ queue' = q
                /\ currentNode' = node
                /\ Emit(evs1)
           ELSE IF ~can.ok
           THEN /\ lootNodes' = x.heap
                /\ site' = st
                /\ cargo' = cargo
                /\ queue' = IF Len(q) = 0 THEN q ELSE Tail(q)
                /\ currentNode' = NoNode
                /\ Emit(Append(evs1, NodeEv("ItemSkipped", t, node, can.reason)))
           ELSE /\ lootNodes' = heap1
                /\ cargo' = consumeCargo(cargo, heap1[node])
                /\ site' = removeNodeFromSite(st, node)
                /\ queue' = IF Len(q) = 0 THEN q ELSE Tail(q)
                /\ currentNode' = NoNode
                /\ Emit(Append(evs1, NodeEv("ItemTransferred", t, node, "")))

\* runStep on a running engine: the clock, the selection when no node is
\* active, the hazard tick and the progress of the active node
StepRunning ==
  /\ steps' = steps + 1
  /\ timeSec' = FlAdd(timeSec, DtSec(config))
  /\ UNCHANGED <<tools, options, config>>
  /\ IF currentNode = NoNode
     THEN LET sn == startNextNode(queue, site.nodes, lootNodes, cargo, tools, options,
                                  timeSec')
          IN  IF ~sn.isRunning \/ sn.currentNode = NoNode
              THEN /\ queue' = sn.queue
                   /\ isRunning' = sn.isRunning
                   /\ currentNode' = NoNode
                   /\ currentNodeProgressSec' = QZero
                   /\ currentNodeTotalSec' = QZero
                   /\ Emit(sn.evs)
                   /\ UNCHANGED <<lootNodes, site, cargo, hazardState>>
              ELSE StepActive(World(sn.evs), sn.queue, sn.currentNode, QZero, sn.totalSec,
                              DtSec(config), timeSec')
     ELSE StepActive(World(<<>>), queue, currentNode, currentNodeProgressSec,
                     currentNodeTotalSec, DtSec(config), timeSec')

\* runStep without the running guard
RunStep_noGuard ==
  /\ steps < MaxSeconds * config.tickRateHz
  /\ StepRunning

RunStep ==
  IF ~isRunning
  THEN /\ Emit(<<>>)
       /\ UNCHANGED <<lootNodes, site, cargo, tools, options, config, queue, isRunning, timeSec,
                      currentNodeProgressSec, currentNodeTotalSec, currentNode, hazardState, steps>>
  ELSE /\ steps < MaxSeconds * config.tickRateHz
       /\ StepRunning

\* queue editing on an idle engine, with queues long enough for a move to
\* pass over several entries
MaxReorderLen == 4

QueueEnqueue ==
  \E n \in NodeIds :
    /\ Len(queue) < MaxReorderLen
    /\ queue' = enqueue(queue, <<n>>, site.nodes)
    /\ Emit(<<>>)
    /\ UNCHANGED <<lootNodes, site, cargo, tools, options, config, isRunning, timeSec,
                   currentNodeProgressSec, currentNodeTotalSec, currentNode, hazardState, steps>>

NextQueue == QueueEnqueue \/ ReorderQueue \/ ClearQueue

SpecQueue == Init /\ [][NextQueue]_vars

Next == Enqueue \/ ReorderQueue \/ ClearQueue \/ Start \/ RunStep \/ Abort

Spec == Init /\ [][Next]_vars

\* ------------------------------------------------------------------------
\* the demo driver (main): queue the picks once, start, step until the
\* engine stops
\* ------------------------------------------------------------------------
DriverEnqueue ==
  /\ steps = 0 /\ ~isRunning /\ queue = <<>>
  /\ \E k \in 1..Len(lootNodes) : \E ns \in [1..k -> NodeIds] :
       /\ \A i, j \in 1..k : i # j => ns[i] # ns[j]
       /\ queue' = enqueue(queue, ns, site.nodes)
  /\ Emit(<<>>)
  /\ UNCHANGED <<lootNodes, site, cargo, tools, options, config, isRunning, timeSec,
                 currentNodeProgressSec, currentNodeTotalSec, currentNode, hazardState, steps>>

DriverStart == steps = 0 /\ ~isRunning /\ Start

DriverStep == isRunning /\ RunStep

NextDriver == DriverEnqueue \/ DriverStart \/ DriverStep

SpecDriver == Init /\ [][NextDriver]_vars

\* ------------------------------------------------------------------------
\* an interrupted run: the driver queues the picks once and starts; after
\* every step that leaves a node active it calls abort and then start again
\* ------------------------------------------------------------------------
MidExtraction == currentNode # NoNode /\ \E i \in DOMAIN events : events[i].type = "ItemProgress"

ResumeStart == ~isRunning /\ (steps = 0 \/ currentNode # NoNode) /\ Start

ResumeAbort == isRunning /\ MidExtraction /\ Abort

ResumeStep == isRunning /\ ~MidExtraction /\ RunStep

NextResume == DriverEnqueue \/ ResumeStart \/ ResumeAbort \/ ResumeStep

SpecResume == Init /\ [][NextResume]_vars

\* ------------------------------------------------------------------------
\* the single-node run in full: one node of extractTimeSec 10 at the default
\* tickRateHz of 10, driven as main drives the engine
\* ------------------------------------------------------------------------
MaxSingleSteps == 101

ScSingleTen ==
  Scenario(<<[Crate EXCEPT !.extractTimeSec = 10]>>, 0, Cargo(100, 10, 0, 0), Tools(TRUE, TRUE),
           Options("Normal", FALSE, FALSE), <<>>)

InitSingle ==
  /\ lootNodes = ScSingleTen.nodes
  /\ site = [nodes |-> <<1>>, hazard |-> FromInt(ScSingleTen.hazard),
             stabilizedVolatiles |-> FALSE, exhausted |-> FALSE]
  /\ cargo = ScSingleTen.cargo
  /\ tools = ScSingleTen.tools
  /\ options = ScSingleTen.options
  /\ config = ScSingleTen.config
  /\ queue = <<>>
  /\ isRunning = FALSE
  /\ timeSec = QZero
  /\ currentNodeProgressSec = QZero
  /\ currentNodeTotalSec = QZero
  /\ currentNode = NoNode
  /\ hazardState = {}
  /\ events = <<>>
  /\ hist = InitHist
  /\ steps = 0

SingleEnqueue == DriverEnqueue

SingleStart == DriverStart

SingleStep == isRunning /\ steps < MaxSingleSteps /\ StepRunning

NextSingle == SingleEnqueue \/ SingleStart \/ SingleStep

SpecSingle == InitSingle /\ [][NextSingle]_vars

\* ------------------------------------------------------------------------
\* the auto-queue planner as main uses it: the picks of computeAutoQueue
\* over site.nodes are enqueued on the fresh engine
\* ------------------------------------------------------------------------
MaxAutoNodes == 3
MaxItems == 2

\* node shapes for the planner: a tie of two scores that are no binary
\* fractions (Plate 2/3, Hull 4/6), a mass of zero (Gas), a value of zero
\* (Survivor), tags inside and outside the first three preferences
Plate    == Node({"Rare"}, 3, 1, 100, 2, 1, 1, "None")
OreCrate == Node({"Ore"}, 1, 1, 100, 3, 1, 1, "None")
Hull     == Node({}, 6, 2, 100, 4, 1, 1, "None")
Gas      == Node({"Fuel"}, 0, 1, 100, 5, 1, 1, "None")
Survivor == Node({"Ammo"}, 1, 1, 100, 0, 1, 1, "None")

AutoPool == {Plate, OreCrate, Hull, Gas, Survivor}

AutoNodeLists == UNION { [1..k -> AutoPool] : k \in 0..MaxAutoNodes }

\* partly used, full by mass
AutoCargos == {Cargo(8, 4, 2, 1), Cargo(8, 4, 8, 1)}

\* priorities.preferredTags: "Ore" alone, and "Ore" as the fourth of four
PreferenceLists == {<<"Ore">>, <<"Rare", "Ammo", "Heavy", "Ore">>}

InitAuto ==
  /\ lootNodes \in AutoNodeLists
  /\ site = [nodes |-> [i \in 1..Len(lootNodes) |-> i], hazard |-> QZero,
             stabilizedVolatiles |-> FALSE, exhausted |-> Len(lootNodes) = 0]
  /\ cargo \in AutoCargos
  /\ tools = Tools(FALSE, FALSE)
  /\ options = Options("Normal", TRUE, TRUE)
  /\ config = MergeConfig(<<>>)
  /\ queue = <<>>
  /\ isRunning = FALSE
  /\ timeSec = QZero
  /\ currentNodeProgressSec = QZero
  /\ currentNodeTotalSec = QZero
  /\ currentNode = NoNode
  /\ hazardState = {}
  /\ events = <<>>
  /\ hist = InitHist
  /\ steps = 0

\* const picks = computeAutoQueue(site.nodes, cargo, priorities, maxItems);
\* engine.enqueue(picks)
AutoEnqueue ==
  /\ ~isRunning /\ queue = <<>>
  /\ \E prefs \in PreferenceLists : \E maxItems \in 0..MaxItems :
       queue' = enqueue(queue, computeAutoQueue(site.nodes, lootNodes, cargo, prefs, maxItems),
                        site.nodes)
  /\ Emit(<<>>)
  /\ UNCHANGED <<lootNodes, site, cargo, tools, options, config, isRunning, timeSec,
                 currentNodeProgressSec, currentNodeTotalSec, currentNode, hazardState, steps>>

NextAuto == AutoEnqueue

SpecAuto == InitAuto /\ [][NextAuto]_vars

\* ------------------------------------------------------------------------
\* the demo driver run to its end: the interval timer of main calls runStep
\* again and again while the engine is running, so a step that can be taken
\* is taken; MaxLiveSteps is more than any run of the scenarios needs
\* ------------------------------------------------------------------------
MaxLiveSteps == 24

LiveStep == isRunning /\ steps < MaxLiveSteps /\ StepRunning

NextLive == DriverEnqueue \/ DriverStart \/ LiveStep

\* the steps of NextLive that LiveStep takes are those that count a step, and
\* LiveStep can be taken whenever its guard holds, so fairness is stated on
\* the counting of steps
LiveAdvance == isRunning /\ steps < MaxLiveSteps /\ steps' = steps + 1

SpecLive == Init /\ [][NextLive]_vars /\ WF_steps(LiveAdvance)

\* ------------------------------------------------------------------------
\* helpers of the properties
\* ------------------------------------------------------------------------
HasEvent(type, node) == \E i \in DOMAIN events : events[i].type = type /\ events[i].node = node

HasType(type) == \E i \in DOMAIN events : events[i].type = type

Fits(n) ==
  /\ cargo.usedMassKg + lootNodes[n].massKg <= cargo.maxMassKg
  /\ cargo.usedVolumeM3 + lootNodes[n].volumeM3 <= cargo.maxVolumeM3

ToolMissing(n) ==
  \/ lootNodes[n].requiresTool = "Crane" /\ ~tools.hasCrane
  \/ lootNodes[n].requiresTool = "Cutter" /\ ~tools.hasCutter

\* ------------------------------------------------------------------------
\* properties
\* ------------------------------------------------------------------------

\* C1: cargo usage never exceeds the cargo maximums, in mass and in volume,
\* for either waitForSpace setting.
C1_CargoNeverExceeded ==
  /\ cargo.usedMassKg <= cargo.maxMassKg
  /\ cargo.usedVolumeM3 <= cargo.maxVolumeM3

\* C2: with waitForSpace set and a single queued node that is in the site,
\* needs no missing tool and does not fit the cargo, a step emits neither
\* ItemStarted nor Completed and leaves the engine running without an
\* active node and the node at the queue head.
C2_HoldWhileCargoFull ==
  (/\ options.waitForSpace
   /\ Len(queue) = 1
   /\ Head(queue) \in Range(site.nodes)
   /\ ~ToolMissing(Head(queue))
   /\ ~Fits(Head(queue)))
  => (/\ ~HasType("ItemStarted")
      /\ ~HasType("Completed")
      /\ currentNode = NoNode)

\* C3: a node for which NodeDestroyed has been emitted is never transferred
\* afterwards.  ItemTransferred is the last event of its step, so every
\* NodeDestroyed counted so far came before it.
C3_DestroyedNeverTransferred ==
  \A i \in DOMAIN events :
    events[i].type = "ItemTransferred" => hist.NodeDestroyed[events[i].node] = 0

\* C4: site.exhausted is true exactly when site.nodes is empty.
C4_ExhaustedIffEmpty == site.exhausted <=> (Len(site.nodes) = 0)


\* C5: every configured threshold is announced (and its effect pass run) at
\* most once over the lifetime of the engine.
C5_ThresholdAtMostOnce ==
  \A th \in DOMAIN hist.HazardThreshold : hist.HazardThreshold[th] <= 1

\* two thresholds fired in one tick of start's stabilization, and a later
\* step ticked the hazard above both without announcing them again
C5_Witness ==
  /\ \A th \in {30, 60} : th \in DOMAIN hist.HazardThreshold /\ hist.HazardThreshold[th] = 1
  /\ hist.StabilizedVolatiles = 1
  /\ HasType("ItemProgress")
  /\ ~HasType("HazardThreshold")
  /\ QLeq(FromInt(60), site.hazard)

\* C6: site.hazard stays within [hazardClamp.min, hazardClamp.max].
C6_HazardWithinClamp ==
  /\ QLeq(FromInt(config.hazardClamp.min), site.hazard)
  /\ QLeq(site.hazard, FromInt(config.hazardClamp.max))

\* a hazard tick of an active node ended at the upper clamp
C6_Witness ==
  /\ site.hazard = FromInt(config.hazardClamp.max)
  /\ HasType("ItemProgress")
  /\ steps >= 2

\* C7: the condition of every node stays within [0, 100].
C7_ConditionInRange ==
  \A n \in NodeIds : lootNodes[n].condition >= 0 /\ lootNodes[n].condition <= 100

\* a node was damaged down to condition 0 in the last operation
C7_Witness ==
  \E n \in NodeIds : lootNodes[n].condition = 0 /\ HasEvent("NodeDamaged", n)

\* the single-node run: one crate that needs no tool and has no volatile
\* tag, stance Normal, ample cargo that starts empty
IsSingleNodeRun ==
  /\ Len(lootNodes) = 1
  /\ lootNodes[1].requiresTool = "None"
  /\ ~IsVolatile(lootNodes[1])
  /\ options.stance = "Normal"
  /\ cargo.maxMassKg >= lootNodes[1].massKg
  /\ cargo.maxVolumeM3 >= lootNodes[1].volumeM3

\* D: extractTimeSec x tickRateHz
DurationTicks == lootNodes[1].extractTimeSec * config.tickRateHz

\* C8: in the single-node run driven by enqueue, start and runStep only, the
\* first D steps emit exactly one ItemStarted, exactly one ItemTransferred
\* and no Completed, cargo mass has then grown by the mass of the node, and
\* Completed is emitted by step D + 1.
C8_SingleNodeRun ==
  (IsSingleNodeRun /\ hist.ItemStarted[1] > 0) =>
    /\ hist.ItemStarted[1] = 1
    /\ steps = DurationTicks =>
         /\ hist.ItemTransferred[1] = 1
         /\ hist.Completed = 0
         /\ cargo.usedMassKg = lootNodes[1].massKg
    /\ steps = DurationTicks + 1 => (HasType("Completed") /\ ~isRunning)

\* C9: a queued node whose required tool is missing is never started or
\* transferred; the step that finds it at the queue head (queued once, still
\* in the site) emits exactly one ItemSkipped for it as its first event with
\* the tool as the reason, removes it from the queue, leaves it in the site,
\* leaves cargo alone unless another node is transferred, and goes on in the
\* same step to the next queue entry or to Completed; for either
\* waitForSpace setting.
C9_ToolMissingSkipped ==
  /\ [](\A n \in NodeIds :
          ToolMissing(n) =>
            hist.ItemStarted[n] = 0 /\ hist.ItemTransferred[n] = 0 /\ currentNode # n)
  /\ [][ (/\ steps' = steps + 1
          /\ currentNode = NoNode
          /\ queue # <<>>
          /\ Head(queue) \in Range(site.nodes)
          /\ ToolMissing(Head(queue))
          /\ Cardinality({i \in DOMAIN queue : queue[i] = Head(queue)}) = 1)
         => LET n == Head(queue)
            IN  /\ Len(events') >= 2
                /\ events'[1].type = "ItemSkipped"
                /\ events'[1].node = n
                /\ events'[1].message =
                     (IF lootNodes[n].requiresTool = "Crane" THEN "Requires Crane"
                      ELSE "Requires Cutter")
                /\ events'[2].type \in {"ItemSkipped", "ItemStarted", "Completed"}
                /\ Cardinality({i \in DOMAIN events' :
                                  events'[i].type = "ItemSkipped" /\ events'[i].node = n}) = 1
                /\ n \notin Range(queue')
                /\ \/ n \in Range(site'.nodes)
                   \/ \E i \in DOMAIN events' :
                        events'[i].type = "NodeDestroyed" /\ events'[i].node = n
                /\ \/ cargo' = cargo
                   \/ \E i \in DOMAIN events' :
                        events'[i].type = "ItemTransferred" /\ events'[i].node # n
       ]_vars

\* a crane-only node was skipped while waiting for space was enabled, and the
\* same step started the next queued node
C9_Witness ==
  /\ options.waitForSpace
  /\ Len(events) >= 2
  /\ events[1].type = "ItemSkipped"
  /\ events[1].message = "Requires Crane"
  /\ events[2].type = "ItemStarted"
  /\ hist.ItemSkipped[events[1].node] = 1

\* one Volatile-tagged node, hazardThresholds = [30], certain detonation,
\* no stabilization
IsVolatileRun ==
  /\ Len(lootNodes) = 1
  /\ "Volatile" \in lootNodes[1].tags
  /\ config.hazardThresholds = <<30>>
  /\ config.volatileExplodeChanceAtThreshold = 100
  /\ ~options.autoStabilizeVolatiles

\* C10: in that run the node is destroyed (gone from site.nodes) as soon as
\* site.hazard >= 30, NodeDestroyed is emitted exactly once over the run, not
\* before the hazard reaches 30, and the threshold fires once only.
C10_VolatileDestroyedOnce ==
  IsVolatileRun =>
    /\ QLeq(FromInt(30), site.hazard) =>
         /\ 1 \notin Range(site.nodes)
         /\ hist.NodeDestroyed[1] = 1
         /\ hist.HazardThreshold[30] = 1
    /\ QLt(site.hazard, FromInt(30)) =>
         /\ hist.NodeDestroyed[1] = 0
         /\ hist.HazardThreshold[30] = 0

\* the node was destroyed at the threshold and a later step ticked the
\* hazard above 30 without a second resolution
C10_Witness ==
  /\ IsVolatileRun
  /\ QLt(FromInt(30), site.hazard)
  /\ hist.NodeDestroyed[1] = 1
  /\ HasType("ItemProgress")
  /\ ~HasType("HazardThreshold")

\* the program state other than what the last operation emitted
engineState == <<lootNodes, site, cargo, tools, options, config, queue, isRunning, timeSec,
                 currentNodeProgressSec, currentNodeTotalSec, currentNode, hazardState>>

CountType(evs, type) == Cardinality({i \in DOMAIN evs : evs[i].type = type})

\* C11: abort emits Aborted exactly once when the engine is running and
\* leaves it not running; abort on an engine that is not running (never
\* started, aborted, completed) emits nothing and changes no state, so an
\* abort that directly follows an abort emits nothing.
C11_AbortIdempotent ==
  [][ Abort =>
        /\ ~isRunning'
        /\ CountType(events', "Aborted") = (IF isRunning THEN 1 ELSE 0)
        /\ ~isRunning => (events' = <<>> /\ UNCHANGED engineState)
        /\ HasType("Aborted") => (events' = <<>> /\ UNCHANGED engineState)
    ]_vars

\* an engine aborted in the middle of an extraction, on which a further
\* operation emitted nothing
C11_Witness ==
  /\ ~isRunning
  /\ currentNode # NoNode
  /\ events = <<>>
  /\ steps > 0
  /\ hist.Completed = 0

\* C12: abort on a running engine clears the running flag and leaves cargo,
\* site (nodes, hazard), node conditions, queue, active node, its progress,
\* the fired thresholds and the clock as they were.
C12_AbortFrame ==
  [][ (isRunning /\ Abort) =>
        /\ ~isRunning'
        /\ UNCHANGED <<cargo, site, lootNodes, queue, currentNode, currentNodeProgressSec,
                       currentNodeTotalSec, hazardState, timeSec>>
    ]_vars

\* aborted with one node already transferred and the next one in progress
C12_Witness ==
  /\ HasType("Aborted")
  /\ ~isRunning
  /\ currentNode # NoNode
  /\ QLt(QZero, currentNodeProgressSec)
  /\ \E n \in NodeIds : hist.ItemTransferred[n] = 1 /\ cargo.usedMassKg >= lootNodes[n].massKg

\* the node lists enqueue is called with
EnqueueInputs == UNION { [1..k -> NodeIds] : k \in 0..MaxEnqueue }

\* the entries of ns that are in the site, in the order given
RECURSIVE InSiteOf(_, _)
InSiteOf(ns, siteNodes) ==
  IF ns = <<>> THEN <<>>
  ELSE (IF \E i \in DOMAIN siteNodes : siteNodes[i] = Head(ns) THEN <<Head(ns)>> ELSE <<>>)
         \o InSiteOf(Tail(ns), siteNodes)

\* C13: for every node list ns, enqueue(ns) leaves the queue equal to the
\* old queue followed by the entries of ns whose id is in site.nodes at that
\* time, in the order given (the length grows by their number only); a step
\* that lengthens the queue, which only enqueue does, appends site nodes,
\* leaves cargo, site, nodes, running flag, active node, its progress and
\* the clock unchanged and emits nothing.
C13_EnqueueAppendsLiveNodes ==
  /\ [](\A ns \in EnqueueInputs :
          LET q2 == enqueue(queue, ns, site.nodes)
          IN  /\ q2 = queue \o InSiteOf(ns, site.nodes)
              /\ Len(q2) = Len(queue)
                   + Cardinality({i \in DOMAIN ns : ns[i] \in Range(site.nodes)}))
  /\ [][ Len(queue') > Len(queue) =>
           /\ events' = <<>>
           /\ steps' = steps
           /\ SubSeq(queue', 1, Len(queue)) = queue
           /\ \A i \in (Len(queue) + 1)..Len(queue') : queue'[i] \in Range(site.nodes)
           /\ UNCHANGED <<cargo, site, lootNodes, isRunning, currentNode,
                          currentNodeProgressSec, currentNodeTotalSec, timeSec, hazardState>>
       ]_vars

\* a queue that holds site nodes only after an operation that emitted
\* nothing, on a site that a node has already left
C13_Witness ==
  /\ events = <<>>
  /\ Len(queue) = 2
  /\ \A i \in DOMAIN queue : queue[i] \in Range(site.nodes)
  /\ \E n \in NodeIds : n \notin Range(site.nodes)
  /\ currentNode = NoNode

\* C14: runStep on an engine that is not running emits no event and
\* leaves the clock, queue, active node, progress, hazard, site.nodes, cargo
\* and every other field as they were.
C14_RunStepIdleNoOp ==
  [][ (~isRunning /\ RunStep) => (events' = <<>> /\ UNCHANGED engineState /\ steps' = steps)
    ]_vars

\* a completed engine on which a further operation emitted nothing
C14_Witness ==
  /\ ~isRunning
  /\ hist.Completed >= 1
  /\ events = <<>>
  /\ steps > 0

\* C15: StabilizedVolatiles is emitted at most once by an engine, and only
\* by a start made while not running with autoStabilizeVolatiles set and
\* site.stabilizedVolatiles false (so never again for a site whose flag is
\* set, whichever engine set it); site.stabilizedVolatiles never returns to
\* false; start on a running engine emits nothing and changes nothing.
C15_StabilizeOnce ==
  /\ [](hist.StabilizedVolatiles <= 1)
  /\ [][ /\ site.stabilizedVolatiles => site'.stabilizedVolatiles
         /\ CountType(events', "StabilizedVolatiles") > 0 =>
              /\ Start
              /\ ~isRunning
              /\ options.autoStabilizeVolatiles
              /\ ~site.stabilizedVolatiles
              /\ CountType(events', "StabilizedVolatiles") = 1
         /\ (isRunning /\ Start) => (events' = <<>> /\ UNCHANGED engineState)
         /\ (~isRunning /\ site.stabilizedVolatiles /\ Start) => events' = <<>>
       ]_vars

\* a stabilized site on which the engine was aborted during an extraction
\* and started again, the second start emitting nothing
C15_Witness ==
  /\ isRunning
  /\ site.stabilizedVolatiles
  /\ hist.StabilizedVolatiles = 1
  /\ events = <<>>
  /\ currentNode # NoNode
  /\ QLt(QZero, currentNodeProgressSec)

\* a start that stabilizes: the engine is idle, the option is set and the
\* site has not been stabilized
StabilizingStart ==
  ~isRunning /\ options.autoStabilizeVolatiles /\ ~site.stabilizedVolatiles /\ Start

\* the start step leaves what StabilizedVolatiles followed by n hazard ticks
\* with zero hazard contribution leave
StartRunsTicks(n) ==
  \E w \in StabilizeTicks(
             {[World(<<Ev("StabilizedVolatiles", timeSec, NoNode, 0, NoProgress, "")>>)
                 EXCEPT !.stabilized = TRUE]},
             n, DtSec(config), options, config, timeSec) :
    /\ site'.nodes = w.nodes
    /\ site'.hazard = w.hazard
    /\ lootNodes' = w.heap
    /\ hazardState' = w.triggered
    /\ events' = w.evs

\* the thresholds the hazard already reaches and that have not fired
DueThresholds ==
  {config.hazardThresholds[i] : i \in {j \in DOMAIN config.hazardThresholds :
      /\ QLeq(FromInt(config.hazardThresholds[j]), site.hazard)
      /\ config.hazardThresholds[j] \notin hazardState}}

\* what a stabilizing start leaves whatever the number of ticks: hazard and
\* clock as before, the site marked, StabilizedVolatiles first, and every
\* due threshold fired once
StabilizationEffects ==
  /\ site'.hazard = site.hazard
  /\ timeSec' = timeSec
  /\ site'.stabilizedVolatiles
  /\ events'[1].type = "StabilizedVolatiles"
  /\ hazardState' = hazardState \cup DueThresholds
  /\ \A th \in DueThresholds :
       Cardinality({i \in DOMAIN events' :
                      events'[i].type = "HazardThreshold" /\ events'[i].threshold = th}) = 1
  /\ CountType(events', "HazardThreshold") = Cardinality(DueThresholds)

\* C16 as stated: the stabilizing start runs ceil(stabilizeTimeSec x
\* tickRateHz) hazard ticks with zero hazard contribution; hazard and clock
\* are the same after it, StabilizedVolatiles is its first event, and every
\* threshold the hazard already reaches fires during it.
C16_StabilizationTicks ==
  [][ StabilizingStart =>
        /\ StartRunsTicks(config.stabilizeTimeSec * config.tickRateHz)
        /\ StabilizationEffects
    ]_vars

\* C16, amended: the number of ticks is ceil(stabilizeTimeSec x tickRateHz),
\* and one when that product is 0; the rest as stated.
C16_StabilizationTicksAmended ==
  [][ StabilizingStart =>
        /\ StartRunsTicks(IF config.stabilizeTimeSec * config.tickRateHz = 0 THEN 1
                          ELSE config.stabilizeTimeSec * config.tickRateHz)
        /\ StabilizationEffects
    ]_vars

\* a stabilization of duration 0 fired the threshold the hazard was at
C16_Witness ==
  /\ config.stabilizeTimeSec = 0
  /\ isRunning
  /\ Len(events) = 2
  /\ events[1].type = "StabilizedVolatiles"
  /\ events[2].type = "HazardThreshold"
  /\ hazardState = {30}

\* C17: Completed is emitted only by a runStep, which leaves the engine not
\* running with an empty queue and no active node, and at most once per
\* engine over any sequence of operations.
C17_CompletedOnce ==
  /\ [](hist.Completed <= 1)
  /\ [][ CountType(events', "Completed") > 0 =>
           /\ steps' = steps + 1
           /\ CountType(events', "Completed") = 1
           /\ ~isRunning'
           /\ queue' = <<>>
           /\ currentNode' = NoNode
       ]_vars

\* C18: whenever the engine is not running (before start, after Completed,
\* after abort) its current node is null.
C18_IdleNoActiveNode == ~isRunning => currentNode = NoNode

\* s without its entry at 0-based index i
Without(s, i) == [k \in 1..(Len(s) - 1) |-> IF k <= i THEN s[k] ELSE s[k + 1]]

\* C19: reorderQueue(from, to) leaves the queue as it is when from is
\* outside [0, length - 1]; otherwise the entry at from ends at index
\* clamp(to, 0, length - 1), the length is kept, and the other entries keep
\* their relative order (so the multiset of entries is kept); a reorder step
\* emits nothing and leaves cargo, site, nodes and active node untouched.
C19_ReorderMovesOne ==
  /\ [](\A from \in (0 - 2)..(Len(queue) + 1), to \in (0 - 2)..(Len(queue) + 2) :
          LET r  == reorderQueue(queue, from, to)
              at == IF to < 0 THEN 0 ELSE IF to > Len(queue) - 1 THEN Len(queue) - 1 ELSE to
          IN  IF from < 0 \/ from > Len(queue) - 1 THEN r = queue
              ELSE /\ Len(r) = Len(queue)
                   /\ r[at + 1] = queue[from + 1]
                   /\ Without(r, at) = Without(queue, from))
  /\ [][ ReorderQueue =>
           /\ events' = <<>>
           /\ Len(queue') = Len(queue)
           /\ UNCHANGED <<cargo, site, lootNodes, isRunning, currentNode,
                          currentNodeProgressSec, currentNodeTotalSec, timeSec, hazardState>>
       ]_vars

\* a queue of four entries, three of them different, out of site order
C19_Witness ==
  /\ Len(queue) = 4
  /\ Cardinality(Range(queue)) = 3
  /\ queue[1] > queue[2]
  /\ queue[3] > queue[4]
  /\ events = <<>>

\* C20: clearQueue empties the queue, emits nothing and leaves cargo, site,
\* nodes, running flag, active node, its progress and the clock unchanged;
\* and with the queue empty a running extraction goes on: every runStep adds
\* one tick to the progress of the active node and the step in which the
\* progress reaches the total emits ItemTransferred for it and adds its mass
\* and volume to cargo.
C20_ClearQueueKeepsActive ==
  [][ /\ ClearQueue =>
           /\ queue' = <<>>
           /\ events' = <<>>
           /\ UNCHANGED <<cargo, site, lootNodes, isRunning, currentNode,
                          currentNodeProgressSec, currentNodeTotalSec, timeSec, hazardState>>
      /\ (steps' = steps + 1 /\ isRunning /\ currentNode # NoNode /\ queue = <<>>) =>
           /\ currentNodeProgressSec' = FlAdd(currentNodeProgressSec, DtSec(config))
           /\ \E i \in DOMAIN events' :
                events'[i].type = "ItemProgress" /\ events'[i].node = currentNode
           /\ IF QLeq(currentNodeTotalSec, currentNodeProgressSec')
              THEN /\ events'[Len(events')].type = "ItemTransferred"
                   /\ events'[Len(events')].node = currentNode
                   /\ cargo'.usedMassKg = cargo.usedMassKg + lootNodes[currentNode].massKg
                   /\ cargo'.usedVolumeM3 = cargo.usedVolumeM3 + lootNodes[currentNode].volumeM3
                   /\ currentNode' = NoNode
              ELSE /\ currentNode' = currentNode
                   /\ isRunning'
                   /\ cargo' = cargo
    ]_vars

\* the queue was cleared during an extraction, which has gone on since
C20_Witness ==
  /\ isRunning
  /\ currentNode # NoNode
  /\ queue = <<>>
  /\ HasEvent("ItemProgress", currentNode)
  /\ steps >= 2

\* a runStep of a running engine with no active node: it runs the selection
SelectionStep == steps' = steps + 1 /\ isRunning /\ currentNode = NoNode

\* a queue entry the selection starts: in the site, its tool present, fits
Startable(n) == n \in Range(site.nodes) /\ ~ToolMissing(n) /\ Fits(n)

\* the position of the first startable queue entry, Len(queue) + 1 if none
FirstStartable ==
  IF \E i \in DOMAIN queue : Startable(queue[i])
  THEN CHOOSE i \in DOMAIN queue :
         Startable(queue[i]) /\ \A j \in 1..(i - 1) : ~Startable(queue[j])
  ELSE Len(queue) + 1

\* the queue entries before it that are still in the site, in queue order
LeadingInSite ==
  SelectSeq(SubSeq(queue, 1, FirstStartable - 1), LAMBDA n : n \in Range(site.nodes))

\* C21: with waitForSpace = false the selection of one runStep emits one
\* ItemSkipped, in queue order, for every entry ahead of the first startable
\* one that is in the site (reason "Insufficient cargo space" when its tool
\* is present), then ItemStarted for the first startable entry, or Completed
\* when there is none; the skipped entries leave the queue, stay in the site
\* unless the hazard tick of that step destroys them, and cargo is unchanged.
C21_SkipsNonFitting ==
  [][ (SelectionStep /\ ~options.waitForSpace) =>
        LET S == LeadingInSite
            k == FirstStartable
        IN  /\ Len(events') > Len(S)
            /\ \A j \in DOMAIN S :
                 /\ events'[j].type = "ItemSkipped"
                 /\ events'[j].node = S[j]
                 /\ ~ToolMissing(S[j]) => events'[j].message = "Insufficient cargo space"
                 /\ \/ S[j] \in Range(site'.nodes)
                    \/ \E i \in DOMAIN events' :
                         events'[i].type = "NodeDestroyed" /\ events'[i].node = S[j]
            /\ CountType(events', "ItemSkipped") = Len(S)
            /\ IF k <= Len(queue)
               THEN /\ events'[Len(S) + 1].type = "ItemStarted"
                    /\ events'[Len(S) + 1].node = queue[k]
                    /\ currentNode' = queue[k]
                    /\ queue' = SubSeq(queue, k, Len(queue))
               ELSE /\ events'[Len(S) + 1].type = "Completed"
                    /\ queue' = <<>>
                    /\ ~isRunning'
            /\ cargo' = cargo
    ]_vars

\* an entry was skipped for lack of cargo space and the next one started in
\* the same step
C21_Witness ==
  /\ ~options.waitForSpace
  /\ Len(events) >= 2
  /\ events[1].type = "ItemSkipped"
  /\ events[1].message = "Insufficient cargo space"
  /\ events[2].type = "ItemStarted"

\* the nodes whose ItemProgress event of this step carries progress 1
CompletedNow ==
  { events'[i].node : i \in { j \in DOMAIN events' :
        /\ events'[j].type = "ItemProgress"
        /\ events'[j].progress.num = events'[j].progress.den } }

\* C22: when the active node's progress reaches 1 and the node does not fit
\* in the remaining cargo, the step emits ItemSkipped and no ItemTransferred
\* for it, leaves cargo unchanged and the node in the site, drops it from the
\* queue and clears the active node.
C22_SkipAtCompletion ==
  [][ (steps' = steps + 1 /\ isRunning) =>
        \A n \in CompletedNow :
          ~Fits(n) =>
            /\ \E i \in DOMAIN events' :
                 events'[i].type = "ItemSkipped" /\ events'[i].node = n
            /\ \A i \in DOMAIN events' :
                 ~(events'[i].type = "ItemTransferred" /\ events'[i].node = n)
            /\ cargo' = cargo
            /\ \/ n \in Range(site'.nodes)
               \/ \E i \in DOMAIN events' :
                    events'[i].type = "NodeDestroyed" /\ events'[i].node = n
            /\ currentNode' = NoNode
    ]_vars

\* the queue from its first entry that is still in the site
RECURSIVE DropMissing(_)
DropMissing(q) ==
  IF Len(q) = 0 \/ Head(q) \in Range(site.nodes) THEN q ELSE DropMissing(Tail(q))

\* C23: a queue head that is no longer in site.nodes is removed by the
\* selection with no ItemSkipped, ItemStarted or other item event for it, and
\* the same step goes on with the next entry that is in the site: its first
\* event is about that entry, or is Completed when no entry is left.
C23_MissingDroppedSilently ==
  [][ (SelectionStep /\ Len(queue) > 0 /\ Head(queue) \notin Range(site.nodes)) =>
        LET rest == DropMissing(queue)
        IN  /\ \A i \in DOMAIN events' :
                 events'[i].node = Head(queue) =>
                   events'[i].type \notin {"ItemSkipped", "ItemStarted", "ItemProgress",
                                           "ItemTransferred"}
            /\ Len(queue') <= Len(rest)
            /\ queue' = SubSeq(queue, Len(queue) - Len(queue') + 1, Len(queue))
            /\ Len(events') > 0
            /\ IF Len(rest) = 0
               THEN events'[1].type = "Completed" /\ ~isRunning'
               ELSE /\ events'[1].type \in {"ItemSkipped", "ItemStarted"}
                    /\ events'[1].node = Head(rest)
    ]_vars

\* a silent drop leaves no trace in the state after it, so the case is shown
\* where it is about to happen: a running engine with no active node and a
\* step still to run, whose queue head left the site while queued and whose
\* next entry can be started
C23_Witness ==
  /\ isRunning
  /\ currentNode = NoNode
  /\ steps > 0
  /\ steps < MaxSeconds * config.tickRateHz
  /\ Len(queue) = 2
  /\ queue[1] \notin Range(site.nodes)
  /\ queue[2] # queue[1]
  /\ Startable(queue[2])

\* the sum of f over the entries of a sequence of nodes
RECURSIVE SumOver(_, _)
SumOver(ns, field) ==
  IF Len(ns) = 0 THEN 0 ELSE lootNodes[Head(ns)][field] + SumOver(Tail(ns), field)

Preferred3(n, prefs) == \E i \in DOMAIN prefs : i <= 3 /\ prefs[i] \in lootNodes[n].tags

\* the score as a fraction: value / massKg, or value when massKg <= 0,
\* doubled for a preferred node
ScoreNum(n, prefs) == lootNodes[n].value * (IF Preferred3(n, prefs) THEN 2 ELSE 1)

ScoreDen(n) == IF lootNodes[n].massKg <= 0 THEN 1 ELSE lootNodes[n].massKg

ScoreLess(a, b, prefs) == ScoreNum(a, prefs) * ScoreDen(b) < ScoreNum(b, prefs) * ScoreDen(a)

\* the positions of site.nodes that hold a node of positive value
Candidates == { i \in DOMAIN site.nodes : lootNodes[site.nodes[i]].value > 0 }

\* position i ranks ahead of position j: a higher score, or the same score
\* and earlier in the input
Outranks(i, j, prefs) ==
  \/ ScoreLess(site.nodes[j], site.nodes[i], prefs)
  \/ /\ ~ScoreLess(site.nodes[i], site.nodes[j], prefs)
     /\ i < j

ExpectedRanking(prefs) ==
  [k \in 1..Cardinality(Candidates) |->
     site.nodes[CHOOSE i \in Candidates :
                  Cardinality({ j \in Candidates : Outranks(j, i, prefs) }) = k - 1]]

\* the greedy selection over a ranking from rank k on: a node is taken iff
\* fewer than maxItems are taken so far and mass and volume stay within
RECURSIVE GreedyFrom(_, _, _, _, _, _)
GreedyFrom(rk, k, count, mass, vol, maxItems) ==
  IF k > Len(rk) THEN <<>>
  ELSE LET n == lootNodes[rk[k]]
       IN  IF /\ count < maxItems
              /\ mass + n.massKg <= cargo.maxMassKg
              /\ vol + n.volumeM3 <= cargo.maxVolumeM3
           THEN <<rk[k]>> \o GreedyFrom(rk, k + 1, count + 1, mass + n.massKg,
                                        vol + n.volumeM3, maxItems)
           ELSE GreedyFrom(rk, k + 1, count, mass, vol, maxItems)

\* C25: computeAutoQueue returns exactly the greedy selection over the nodes
\* of positive value ranked by descending score with ties in input order:
\* a node is accepted iff fewer than maxItems are accepted so far and the
\* running mass and volume, seeded from the cargo usage, stay within the
\* maximums, and the scan goes on past a node that would overflow; the
\* result holds no node twice and no node of value <= 0.
C25_AutoQueueIsGreedy ==
  \A prefs \in PreferenceLists :
    LET rk == ExpectedRanking(prefs)
    IN  \A maxItems \in 0..MaxItems :
          LET r == computeAutoQueue(site.nodes, lootNodes, cargo, prefs, maxItems)
          IN  /\ r = GreedyFrom(rk, 1, 0, cargo.usedMassKg, cargo.usedVolumeM3, maxItems)
              /\ \A i, j \in DOMAIN r : i # j => r[i] # r[j]
              /\ \A i \in DOMAIN r : lootNodes[r[i]].value > 0

\* the enqueued picks passed over a node that would overflow and took a
\* lighter one of the same score behind it
C25_Witness ==
  \E prefs \in PreferenceLists : \E maxItems \in 0..MaxItems :
    /\ queue = computeAutoQueue(site.nodes, lootNodes, cargo, prefs, maxItems)
    /\ LET rk == ExpectedRanking(prefs)
       IN  \E i, j \in DOMAIN rk :
             /\ i < j
             /\ rk[i] \notin Range(queue)
             /\ rk[j] \in Range(queue)
             /\ ~ScoreLess(rk[j], rk[i], prefs)
             /\ lootNodes[rk[j]].massKg < lootNodes[rk[i]].massKg

\* the binary64 score the planner gives a node
Score(n, prefs) ==
  weightedValuePerKg(lootNodes[n].value, lootNodes[n].massKg,
                     lootNodes[n].tags \cap preferredSet(prefs) # {})

\* C26: the score of a candidate is value / massKg, or value when
\* massKg <= 0, doubled exactly when the node carries one of the first three
\* preferred tags (a tag listed fourth gives no doubling), and the ranking
\* puts no candidate ahead of one with a higher score.
C26_ScoreAndRanking ==
  \A prefs \in PreferenceLists :
    /\ \A i \in Candidates :
         LET n    == site.nodes[i]
             q    == ScoreNum(n, prefs) \div ScoreDen(n)
             base == weightedValuePerKg(lootNodes[n].value, lootNodes[n].massKg, FALSE)
             twice == FlAdd(base, base)
             score == Score(n, prefs)
         IN  /\ IF ScoreNum(n, prefs) % ScoreDen(n) = 0
                THEN QLeq(score, FromInt(q)) /\ QLeq(FromInt(q), score)
                ELSE QLt(FromInt(q), score) /\ QLt(score, FromInt(q + 1))
             /\ IF Preferred3(n, prefs)
                THEN QLeq(score, twice) /\ QLeq(twice, score)
                ELSE QLeq(score, base) /\ QLeq(base, score)
    /\ LET rk == ranked(site.nodes, lootNodes, prefs)
       IN  \A i, j \in DOMAIN rk : i < j => ~ScoreLess(rk[i], rk[j], prefs)

\* the enqueued picks were ranked under a list of four preferred tags: a
\* node of zero mass, scored by its value, stands ahead of a node whose
\* only preferred tag is the fourth and which would lead if it were doubled
C26_Witness ==
  \E prefs \in PreferenceLists : \E maxItems \in 0..MaxItems :
    /\ Len(prefs) > 3
    /\ queue = computeAutoQueue(site.nodes, lootNodes, cargo, prefs, maxItems)
    /\ Len(queue) = 2
    /\ lootNodes[queue[1]].massKg = 0
    /\ prefs[4] \in lootNodes[queue[2]].tags
    /\ ~Preferred3(queue[2], prefs)
    /\ 2 * ScoreNum(queue[2], prefs) * ScoreDen(queue[1])
         > ScoreNum(queue[1], prefs) * ScoreDen(queue[2])

\* C27: in the single-node run (extractTimeSec 10, tickRateHz 10, stance
\* Normal) exactly ten ItemProgress events have been emitted after 100
\* steps, and the last one, emitted by step 100, carries progress 1.0.
C27_TenProgressEvents ==
  (/\ IsSingleNodeRun
   /\ lootNodes[1].extractTimeSec = 10
   /\ config.tickRateHz = 10
   /\ hist.ItemStarted[1] > 0
   /\ steps = 100) =>
    /\ hist.ItemProgress = 10
    /\ \E i \in DOMAIN events :
         /\ events[i].type = "ItemProgress"
         /\ events[i].progress.num = events[i].progress.den

\* C28: NodeDestroyed is emitted at most once per node over a run, and
\* within the events of one operation no NodeDestroyed or NodeDamaged for a
\* node follows the NodeDestroyed of that node.
C28_DestroyedExcluded ==
  /\ \A n \in NodeIds : hist.NodeDestroyed[n] <= 1
  /\ \A i, j \in DOMAIN events :
       (/\ i < j
        /\ events[i].type = "NodeDestroyed"
        /\ events[j].node = events[i].node)
       => events[j].type \notin {"NodeDestroyed", "NodeDamaged"}

\* C29: every node starts with a condition above 0, and damage that leaves
\* a node at condition 0 destroys it, so after every operation no node of
\* condition 0 is in site.nodes.
C29_NoDeadNodeInSite ==
  \A n \in Range(site.nodes) : lootNodes[n].condition > 0

\* C30: for any configured hazardThresholds list, the HazardThreshold
\* events emitted by one runStep or one start carry strictly increasing
\* threshold values.
C30_ThresholdsAscending ==
  \A i, j \in DOMAIN events :
    (i < j /\ events[i].type = "HazardThreshold" /\ events[j].type = "HazardThreshold")
    => events[i].threshold < events[j].threshold

\* the stance-scaled duration of a node as startNextNode computes it from
\* the node's present extractTimeSec
ScaledDuration(n) ==
  QMax(FlDivInt(1, 2),
       FlMul(FromInt(lootNodes[n].extractTimeSec),
             STANCE_MODIFIERS[options.stance].timeMultiplier))

\* C31: the duration against which the active node's progress is measured
\* is the stance-scaled extraction time the node has now, so a stall that
\* adds 3 to the extraction time of the node being extracted lengthens its
\* extraction, as it does for a node that is still queued.
C31_StallLengthensExtraction ==
  currentNode # NoNode => currentNodeTotalSec = ScaledDuration(currentNode)

\* the events of the step just taken hold ItemTransferred for n
TransferredNow(n) ==
  \E i \in DOMAIN events' : events'[i].type = "ItemTransferred" /\ events'[i].node = n

\* C32: an operation that emits no HazardThreshold emits no NodeDamaged and
\* no NodeDestroyed, changes no node's extractTimeSec, changes no node's
\* condition except by the stance delta of a node it transfers, and removes
\* no node from site.nodes except a node it transfers.
C32_EffectsOnlyAtThresholds ==
  [][ (\A i \in DOMAIN events' : events'[i].type # "HazardThreshold") =>
        /\ \A i \in DOMAIN events' : events'[i].type \notin {"NodeDamaged", "NodeDestroyed"}
        /\ \A n \in NodeIds :
             /\ lootNodes'[n].extractTimeSec = lootNodes[n].extractTimeSec
             /\ lootNodes'[n].condition # lootNodes[n].condition =>
                  /\ TransferredNow(n)
                  /\ lootNodes'[n].condition =
                       clamp(lootNodes[n].condition
                               + STANCE_MODIFIERS[options.stance].conditionDelta, 0, 100)
        /\ Range(site'.nodes) \subseteq Range(site.nodes)
        /\ \A n \in Range(site.nodes) \ Range(site'.nodes) : TransferredNow(n)
    ]_vars

\* a step without a threshold transferred a node and changed its condition
\* by the stance delta, on a site where a threshold had fired before and
\* another node remains
C32_Witness ==
  /\ \A i \in DOMAIN events : events[i].type # "HazardThreshold"
  /\ \E i \in DOMAIN events :
       /\ events[i].type = "ItemTransferred"
       /\ events[i].node \notin Range(site.nodes)
  /\ options.stance # "Normal"
  /\ hazardState # {}
  /\ site.nodes # <<>>

\* C33: site.hazard never decreases, and it changes only in a runStep that
\* has an active node (one that emits ItemProgress): steps that hold,
\* complete the run or do nothing, and start, abort and the queue
\* operations leave it as it is.
C33_HazardNeverDecays ==
  [][ /\ QLeq(site.hazard, site'.hazard)
      /\ site'.hazard # site.hazard =>
           /\ steps' = steps + 1
           /\ isRunning
           /\ \E i \in DOMAIN events' : events'[i].type = "ItemProgress"
    ]_vars

\* after a start that stabilized, a step with an active node has raised the
\* hazard above its first value, below the clamp
C33_Witness ==
  /\ site.stabilizedVolatiles
  /\ HasType("ItemProgress")
  /\ steps > 0
  /\ QLt(FromInt(ScFullCargo.hazard), site.hazard)
  /\ QLt(site.hazard, FromInt(config.hazardClamp.max))
  /\ lootNodes = ScFullCargo.nodes

\* C34: with waitForSpace = false, a started engine that is only stepped
\* reaches the not-running state with Completed emitted, whatever stalls,
\* damage and destruction happen on the way.
C34_Terminates ==
  [](( isRunning /\ ~options.waitForSpace) => <>(~isRunning /\ HasType("Completed")))

\* a run that transferred a node and lost another to a detonation has
\* completed
C34_Witness ==
  /\ ~options.waitForSpace
  /\ ~isRunning
  /\ HasType("Completed")
  /\ \E n \in NodeIds : hist.ItemTransferred[n] > 0
  /\ \E n \in NodeIds : hist.NodeDestroyed[n] > 0
  /\ steps < MaxLiveSteps

\* C35: a runStep on a running engine advances timeSec by one tick,
\* 1 / tickRateHz, whether it holds, skips, completes or extracts; every
\* other operation (start with its stabilization ticks, abort, the queue
\* operations, runStep on an idle engine) leaves timeSec alone; and every
\* event carries the clock value of its emission, so timestamps never
\* decrease in emission order.
C35_ClockTicksOncePerStep ==
  [][ /\ IF isRunning /\ steps' = steps + 1
         THEN timeSec' = FlAdd(timeSec, FlDivInt(1, config.tickRateHz))
         ELSE timeSec' = timeSec
      /\ \A i \in DOMAIN events' : events'[i].timeSec = timeSec'
      /\ \A i \in DOMAIN events : QLeq(events[i].timeSec, timeSec')
    ]_vars

\* a later step skipped an entry and completed the run, its events stamped
\* with the advanced clock
C35_Witness ==
  /\ steps >= 2
  /\ HasType("ItemSkipped")
  /\ HasType("Completed")
  /\ QLt(QZero, timeSec)
  /\ \A i \in DOMAIN events : events[i].timeSec = timeSec

\* the node that is active in the step just taken: the active node, or the
\* node the step started
ActiveInStep ==
  IF currentNode # NoNode THEN currentNode
  ELSE IF \E i \in DOMAIN events' : events'[i].type = "ItemStarted"
       THEN events'[CHOOSE i \in DOMAIN events' : events'[i].type = "ItemStarted"].node
       ELSE NoNode

\* C36: a runStep in which a node is active, the step that starts it
\* included, emits exactly one ItemProgress, for that node and after the
\* hazard events of the step; its fraction is within [0, 1] and not below
\* the fraction reached before; ItemTransferred is emitted only for the
\* active node, after an ItemProgress of fraction 1 in the same step, and
\* only for a node that ItemStarted was emitted for.
C36_ProgressEvents ==
  [][ (isRunning /\ steps' = steps + 1) =>
        LET act == ActiveInStep
            P   == { i \in DOMAIN events' : events'[i].type = "ItemProgress" }
        IN  /\ act = NoNode => P = {}
            /\ act # NoNode =>
                 /\ Cardinality(P) = 1
                 /\ \A i \in P :
                      /\ events'[i].node = act
                      /\ \A j \in DOMAIN events' :
                           events'[j].type \in {"HazardThreshold", "NodeDamaged",
                                                "NodeDestroyed"} => j < i
                      /\ QLeq(QZero, events'[i].progress.num)
                      /\ QLeq(events'[i].progress.num, events'[i].progress.den)
                      /\ currentNode # NoNode =>
                           /\ events'[i].progress.den = currentNodeTotalSec
                           /\ QLeq(QMin(currentNodeProgressSec, currentNodeTotalSec),
                                   events'[i].progress.num)
            /\ \A j \in DOMAIN events' :
                 events'[j].type = "ItemTransferred" =>
                   /\ events'[j].node = act
                   /\ hist'.ItemStarted[act] > 0
                   /\ \E i \in P : /\ i < j
                                   /\ events'[i].progress.num = events'[i].progress.den
    ]_vars

\* a node was transferred by a step whose progress overshot the duration:
\* the fraction is 1 although the accumulated time is beyond the total
C36_Witness ==
  /\ HasType("ItemTransferred")
  /\ HasType("HazardThreshold")
  /\ QLt(currentNodeTotalSec, currentNodeProgressSec)
  /\ \E i \in DOMAIN events :
       /\ events[i].type = "ItemProgress"
       /\ events[i].progress.num = events[i].progress.den

\* the cargo the engine was constructed with
InitialCargos ==
  { sc.cargo : sc \in { x \in Scenarios : /\ x.tools = tools
                                          /\ x.options = options
                                          /\ x.config = config
                                          /\ Len(x.nodes) = Len(lootNodes) } }

\* the nodes ItemTransferred has been emitted for, in id order
TransferredNodes ==
  SelectSeq([i \in 1..Len(lootNodes) |-> i], LAMBDA n : hist.ItemTransferred[n] > 0)

\* C37: in every reachable state the used mass and the used volume of the
\* cargo exceed their initial values by exactly the mass and the volume of
\* the nodes ItemTransferred was emitted for, the capacities are the initial
\* ones, and none of these nodes is in site.nodes; since this holds after
\* every operation, no skip, destruction, abort or queue edit changes the
\* cargo usage.
C37_CargoAccountingExact ==
  /\ Cardinality(InitialCargos) = 1
  /\ \A c0 \in InitialCargos :
       /\ cargo.usedMassKg = c0.usedMassKg + SumOver(TransferredNodes, "massKg")
       /\ cargo.usedVolumeM3 = c0.usedVolumeM3 + SumOver(TransferredNodes, "volumeM3")
       /\ cargo.maxMassKg = c0.maxMassKg
       /\ cargo.maxVolumeM3 = c0.maxVolumeM3
  /\ \A i \in DOMAIN TransferredNodes : TransferredNodes[i] \notin Range(site.nodes)

\* two nodes have been transferred and a node was skipped or destroyed
C37_Witness ==
  /\ Len(TransferredNodes) >= 2
  /\ \E n \in NodeIds : hist.ItemSkipped[n] > 0 \/ hist.NodeDestroyed[n] > 0
  /\ cargo.usedMassKg > 0

\* the step just taken ended the extraction of n: it transferred n, or it
\* skipped n when its progress reached 1
ExtractionEnded(n) ==
  \/ TransferredNow(n)
  \/ /\ n \in CompletedNow
     /\ \E i \in DOMAIN events' : events'[i].type = "ItemSkipped" /\ events'[i].node = n

\* C38: a step that transfers a node, or skips it at completion, removes
\* that node's entry from the queue: the queue after the step is what
\* followed an entry for the node, that entry being the head when the node
\* was already active, and every entry removed before it was not in the
\* site or was reported by ItemSkipped; this for every interleaving of
\* reorderQueue, clearQueue and enqueue with the steps of the extraction.
C38_ConsumedEntryIsExtracted ==
  [][ (isRunning /\ steps' = steps + 1) =>
        \A n \in NodeIds :
          ExtractionEnded(n) =>
            \E k \in DOMAIN queue :
              /\ queue[k] = n
              /\ queue' = SubSeq(queue, k + 1, Len(queue))
              /\ currentNode # NoNode => k = 1
              /\ \A j \in 1..(k - 1) :
                   \/ queue[j] \notin Range(site.nodes)
                   \/ \E i \in DOMAIN events' :
                        events'[i].type = "ItemSkipped" /\ events'[i].node = queue[j]
    ]_vars

\* C39: whatever operations were called, a node enqueued several times or an
\* abort followed by a start included, ItemTransferred has been emitted at
\* most once for every node id, and the cargo usage exceeds its initial
\* value by the mass and the volume of transferred nodes, each counted at
\* most once.
C39_TransferredAtMostOnce ==
  /\ \A n \in NodeIds : hist.ItemTransferred[n] <= 1
  /\ \A c0 \in InitialCargos :
       \E used \in SUBSET NodeIds :
         /\ \A n \in used : hist.ItemTransferred[n] = 1
         /\ cargo.usedMassKg - c0.usedMassKg =
              SumOver(SelectSeq(TransferredNodes, LAMBDA n : n \in used), "massKg")
         /\ cargo.usedVolumeM3 - c0.usedVolumeM3 =
              SumOver(SelectSeq(TransferredNodes, LAMBDA n : n \in used), "volumeM3")

\* the only node of a site was enqueued twice and has been transferred; its
\* second entry is still in the queue
C39_Witness ==
  \E n \in NodeIds :
    /\ Len(lootNodes) = 1
    /\ hist.ItemTransferred[n] = 1
    /\ n \in Range(queue)
    /\ n \notin Range(site.nodes)
    /\ isRunning

\* the events of the operation just taken hold an event of this type
EmitsNow(type) == \E i \in DOMAIN events' : events'[i].type = type

\* C40: an abort during an extraction and the start that follows leave the
\* active node, its accumulated progress, its duration and the fired
\* thresholds as they were, and the start emits no event; the step after the
\* start emits ItemProgress for the same node with the fraction the old
\* progress plus one tick gives, no ItemStarted for it (it stays at one), no
\* StabilizedVolatiles, and keeps every threshold that had fired.
C40_AbortStartResumes ==
  [][ /\ (EmitsNow("Aborted") /\ currentNode # NoNode) =>
           /\ ~isRunning'
           /\ UNCHANGED <<currentNode, currentNodeProgressSec, currentNodeTotalSec,
                          hazardState, queue, site, lootNodes, cargo, timeSec>>
      /\ (~isRunning /\ currentNode # NoNode /\ isRunning') =>
           /\ events' = <<>>
           /\ UNCHANGED <<currentNode, currentNodeProgressSec, currentNodeTotalSec,
                          hazardState, queue, site, lootNodes, cargo, timeSec, hist>>
      /\ (isRunning /\ steps' = steps + 1 /\ currentNode # NoNode) =>
           /\ \E i \in DOMAIN events' :
                /\ events'[i].type = "ItemProgress"
                /\ events'[i].node = currentNode
                /\ events'[i].progress.den = currentNodeTotalSec
                /\ events'[i].progress.num =
                     QMin(FlAdd(currentNodeProgressSec, FlDivInt(1, config.tickRateHz)),
                          currentNodeTotalSec)
           /\ ~EmitsNow("ItemStarted")
           /\ ~EmitsNow("StabilizedVolatiles")
           /\ hist'.ItemStarted[currentNode] = 1
           /\ hist'.StabilizedVolatiles = hist.StabilizedVolatiles
           /\ hazardState \subseteq hazardState'
    ]_vars

\* the step after an abort and a start has reported further progress of the
\* node that was active, on a site that was stabilized by the first start and
\* where a threshold had fired
C40_Witness ==
  /\ steps >= 2
  /\ HasType("ItemProgress")
  /\ ~HasType("ItemStarted")
  /\ hist.StabilizedVolatiles = 1
  /\ hazardState # {}
  /\ \E n \in NodeIds : hist.ItemStarted[n] = 1

====
